---- MODULE Spec2Model ----
(***************************************************************************)
(* A model of biterbot's event pipeline: EventBus (eventbus.py), the       *)
(* SignalAdaptor (adapters.py) and the OhlcvFeed scheduler (marketdata.py). *)
(* Strings are sequences of one-character strings, so that topic building  *)
(* and glob matching are computed the way the code computes them.          *)
(***************************************************************************)
EXTENDS Integers, Sequences, FiniteSets, TLC

VARIABLES
  bus,      \* the EventBus: _subs, _glob_cache, _next_id, _seen, _seen_order
  calls,    \* the publish calls in progress and those whose caller holds the result
  adaptor,  \* the SignalAdaptor: _by_topic, _handlers, _bound
  hist,     \* what the callers have observed of the calls that ended
  feed,     \* the OhlcvFeed: _tasks, _stopping, the tasks it created, its stop() call
  clock,    \* the time of the data source, in milliseconds
  probe     \* a call of a function of helpers.py: its argument and what it gave

vars == <<bus, calls, adaptor, hist, feed, clock, probe>>

(***************************************************************************)
(* Bounds of the model.                                                    *)
(***************************************************************************)
\* capacity given to EventBus(dedupe_window=...)
DedupeWindow == 1
\* the largest id the bus allocates
MaxAutoId == 2
\* detectors the adaptor holds for one topic
MaxGens == 2
\* ohlcv events published to the adaptor
MaxEvents == 2

\* no function of helpers.py is being called
NoProbe == <<>>

(***************************************************************************)
(* Strings and topics (helpers.py, class Topics).                          *)
(***************************************************************************)
None == <<>>

Some(x) == <<x>>

S_ohlcv == <<"o", "h", "l", "c", "v", ":">>

S_signal == <<"s", "i", "g", "n", "a", "l", ":">>

Topics_ohlcv(symbol, interval) == S_ohlcv \o symbol \o <<"_">> \o interval

Topics_signal(symbol, interval) == S_signal \o symbol \o <<"_">> \o interval

(***************************************************************************)
(* EventBus: pattern compilation and matching.                             *)
(***************************************************************************)
is_pattern(key) == \E i \in 1..Len(key) : key[i] = "*"

\* the regex built between '^' and '$': ".*" for '*', the escaped character otherwise
compile_parts(pattern) == [i \in 1..Len(pattern) |-> IF pattern[i] = "*" THEN ".*" ELSE pattern[i]]

\* re.match of '^' parts '$' on topic: '.' does not match a newline and '$'
\* also matches just before a trailing newline
RECURSIVE rex_match(_, _)
rex_match(rex, topic) ==
  IF rex = <<>> THEN topic = <<>> \/ topic = <<"\n">>
  ELSE IF rex[1] = ".*"
       THEN rex_match(Tail(rex), topic)
            \/ (topic # <<>> /\ topic[1] # "\n" /\ rex_match(rex, Tail(topic)))
       ELSE topic # <<>> /\ topic[1] = rex[1] /\ rex_match(Tail(rex), Tail(topic))

\* _compile: the cached regex when there is one, the freshly built one otherwise
compile(cache, pattern) ==
  IF pattern \in DOMAIN cache THEN cache[pattern] ELSE compile_parts(pattern)

\* the cache after publish has walked the subscription table: every pattern key compiled
cache_after(cache, keys) ==
  [p \in DOMAIN cache \cup {k \in keys : is_pattern(k)} |-> compile(cache, p)]

key_matches(cache, key, topic) ==
  IF is_pattern(key) THEN rex_match(compile(cache, key), topic) ELSE key = topic

\* a list in place of the set: cbs appended to what was collected
callbacks_extend(acc, cbs) ==
  [cb \in DOMAIN acc \cup cbs |->
     (IF cb \in DOMAIN acc THEN acc[cb] ELSE 0) + (IF cb \in cbs THEN 1 ELSE 0)]

\* callbacks.update(cbs) (lines 146, 148), callbacks being a set: how many times
\* each callback is held
callbacks_update(acc, cbs) == [cb \in DOMAIN acc \cup cbs |-> 1]

\* the loop of lines 142-150 over the keys, then one coroutine for each
\* callback held (lines 153-158)
RECURSIVE collect(_, _, _, _)
collect(b, topic, keys, acc) ==
  IF keys = {} THEN acc
  ELSE LET k == CHOOSE x \in keys : TRUE
       IN collect(b, topic, keys \ {k},
                  IF key_matches(b.glob_cache, k, topic)
                  THEN callbacks_update(acc, b.subs[k]) ELSE acc)

\* the callbacks set collected by publish
matching(b, topic) ==
  UNION {b.subs[k] : k \in {k \in DOMAIN b.subs : key_matches(b.glob_cache, k, topic)}}

(***************************************************************************)
(* EventBus: subscription table.                                           *)
(***************************************************************************)
subscribe(b, key, cb) ==
  [b EXCEPT !.subs = [k \in DOMAIN b.subs \cup {key} |->
                        IF k = key
                        THEN (IF key \in DOMAIN b.subs THEN b.subs[key] ELSE {}) \cup {cb}
                        ELSE b.subs[k]]]

\* unsubscribe without the pop of line 88: the key stays with what is left
unsubscribe_keeping_key(b, key, cb) ==
  [b EXCEPT !.subs = IF key \in DOMAIN b.subs THEN [b.subs EXCEPT ![key] = @ \ {cb}] ELSE b.subs,
            !.glob_cache = [p \in DOMAIN b.glob_cache \ {key} |-> b.glob_cache[p]]]

unsubscribe(b, key, cb) ==
  LET lst == IF key \in DOMAIN b.subs THEN b.subs[key] ELSE {}
      subs1 == IF cb \in lst
               THEN (IF lst \ {cb} = {}
                     THEN [k \in DOMAIN b.subs \ {key} |-> b.subs[k]]
                     ELSE [b.subs EXCEPT ![key] = lst \ {cb}])
               ELSE b.subs
  IN [b EXCEPT !.subs = subs1,
               !.glob_cache = [p \in DOMAIN b.glob_cache \ {key} |-> b.glob_cache[p]]]

(***************************************************************************)
(* EventBus: message ids and the dedupe window.                            *)
(***************************************************************************)
\* an allocation that leaves the counter as it was
next_msg_id_stale(b) == [mid |-> b.next_id, bus |-> b]

\* _next_msg_id: the lock is never contended (its body does not suspend)
next_msg_id(b) == [mid |-> b.next_id, bus |-> [b EXCEPT !.next_id = @ + 1]]

\* deque(maxlen=n).append: the oldest entry is dropped by the deque itself
deque_append(q, x, maxlen) ==
  IF maxlen = 0 THEN <<>>
  ELSE IF Len(q) >= maxlen THEN Append(Tail(q), x)
  ELSE Append(q, x)

\* the while loop of _mark_seen: pops while the deque is longer than its maxlen
RECURSIVE evict_loop(_, _, _)
evict_loop(seen, order, maxlen) ==
  IF Len(order) > maxlen
  THEN evict_loop(seen \ {Head(order)}, Tail(order), maxlen)
  ELSE [seen |-> seen, order |-> order]

mark_seen_drop(b, topic, msg_id) == b

mark_seen(b, topic, msg_id) ==
  LET key == <<topic, msg_id>>
      r == evict_loop(b.seen \cup {key}, deque_append(b.seen_order, key, b.maxlen), b.maxlen)
  IN [b EXCEPT !.seen = r.seen, !.seen_order = r.order]


(***************************************************************************)
(* EventBus.publish.  A publish call is a frame:                           *)
(*   cbs    the callbacks gathered for the call: "running" (its task is    *)
(*          created and has not finished), "ok", "failed" (it raised) or   *)
(*          "cancelled"; at is the detector a handler task has reached     *)
(*   state  "waiting" (suspended in gather), "returned", "raised" or       *)
(*          "cancelled"                                                    *)
(***************************************************************************)
Finished == {"ok", "failed", "cancelled"}

Ended == {"returned", "raised", "cancelled"}

CallIds == 1..8

FreeId(cs) == CHOOSE i \in CallIds : i \notin DOMAIN cs /\ \A j \in 1..(i - 1) : j \in DOMAIN cs

\* a publish that records its pair only after a dispatch
publish_unrecorded(W, caller, topic, payload, msg_id, dedupe) ==
  LET a == IF msg_id = None THEN next_msg_id(W.bus) ELSE [mid |-> msg_id[1], bus |-> W.bus]
      mid == a.mid
      dup == dedupe /\ <<topic, mid>> \in a.bus.seen
      callbacks == IF dup THEN {} ELSE matching(a.bus, topic)
      b1 == IF dup THEN a.bus
            ELSE [a.bus EXCEPT !.glob_cache = cache_after(@, DOMAIN a.bus.subs)]
      id == FreeId(W.calls)
      frame == [topic |-> topic, arg |-> msg_id, msg_id |-> mid,
                dedupe |-> dedupe, payload |-> payload, caller |-> caller,
                cbs |-> [cb \in callbacks |-> [st |-> "running", at |-> 0]],
                coros |-> IF dup THEN <<>> ELSE collect(a.bus, topic, DOMAIN a.bus.subs, <<>>),
                state |-> IF callbacks = {} THEN "returned" ELSE "waiting",
                suppressed |-> dup,
                ret |-> IF callbacks = {} THEN Some(mid) ELSE None]
  IN [bus |-> b1, id |-> id,
      calls |-> [c \in DOMAIN W.calls \cup {id} |-> IF c = id THEN frame ELSE W.calls[c]]]

\* publish up to its first suspension (lines 135-159); a call that is suppressed
\* or gathers no callback runs on to its return statement
publish(W, caller, topic, payload, msg_id, dedupe) ==
  LET a == IF msg_id = None THEN next_msg_id(W.bus) ELSE [mid |-> msg_id[1], bus |-> W.bus]
      mid == a.mid
      dup == dedupe /\ <<topic, mid>> \in a.bus.seen
      callbacks == IF dup THEN {} ELSE matching(a.bus, topic)
      b1 == IF dup THEN a.bus
            ELSE [a.bus EXCEPT !.glob_cache = cache_after(@, DOMAIN a.bus.subs)]
      b2 == IF ~dup /\ callbacks = {} /\ dedupe THEN mark_seen(b1, topic, mid) ELSE b1
      id == FreeId(W.calls)
      frame == [topic |-> topic, arg |-> msg_id, msg_id |-> mid,
                dedupe |-> dedupe, payload |-> payload, caller |-> caller,
                cbs |-> [cb \in callbacks |-> [st |-> "running", at |-> 0]],
                coros |-> IF dup THEN <<>> ELSE collect(a.bus, topic, DOMAIN a.bus.subs, <<>>),
                state |-> IF callbacks = {} THEN "returned" ELSE "waiting",
                suppressed |-> dup,
                ret |-> IF callbacks = {} THEN Some(mid) ELSE None]
  IN [bus |-> b2, id |-> id,
      calls |-> [c \in DOMAIN W.calls \cup {id} |-> IF c = id THEN frame ELSE W.calls[c]]]

\* gather without return_exceptions: the first exception of a child is raised
\* to the awaiting publish at once
gather_propagating(f) ==
  IF \E cb \in DOMAIN f.cbs : f.cbs[cb].st = "failed" THEN "raise"
  ELSE IF \A cb \in DOMAIN f.cbs : f.cbs[cb].st \in Finished THEN "results"
  ELSE "pending"

\* a wait that ends with the first child that is done
gather_first_completed(f) ==
  IF \E cb \in DOMAIN f.cbs : f.cbs[cb].st \in Finished THEN "results" ELSE "pending"

\* asyncio.gather(*coros, return_exceptions=True): it has its results when every
\* child is done; a child's exception is one of the results
gather(f) ==
  IF \A cb \in DOMAIN f.cbs : f.cbs[cb].st \in Finished THEN "results" ELSE "pending"

\* a publish that marks the pair whether dedupe was asked for or not
publish_finish_marking(W, c) ==
  LET f == W.calls[c]
  IN [bus |-> mark_seen(W.bus, f.topic, f.msg_id), id |-> c,
      calls |-> [W.calls EXCEPT ![c].state = "returned", ![c].ret = Some(f.msg_id)]]

\* a publish that marks the pair only when no callback raised
publish_finish_unless_failed(W, c) ==
  LET f == W.calls[c]
      failed == \E cb \in DOMAIN f.cbs : f.cbs[cb].st = "failed"
  IN [bus |-> IF f.dedupe /\ ~failed THEN mark_seen(W.bus, f.topic, f.msg_id) ELSE W.bus,
      id |-> c,
      calls |-> [W.calls EXCEPT ![c].state = "returned", ![c].ret = Some(f.msg_id)]]

\* publish after the await of gather (lines 159-167): an exception out of the await
\* leaves publish, results are logged and the pair is marked
publish_finish(W, c) ==
  LET f == W.calls[c]
      b1 == IF f.dedupe THEN mark_seen(W.bus, f.topic, f.msg_id) ELSE W.bus
  IN IF gather(f) = "raise"
     THEN [bus |-> W.bus, id |-> c, calls |-> [W.calls EXCEPT ![c].state = "raised"]]
     ELSE [bus |-> b1, id |-> c,
           calls |-> [W.calls EXCEPT ![c].state = "returned", ![c].ret = Some(f.msg_id)]]

World == [bus |-> bus, calls |-> calls]

Drop(cs, c) == [d \in DOMAIN cs \ {c} |-> cs[d]]

(***************************************************************************)
(* What callers observe.                                                   *)
(*   prev   the publish call that began most recently, once it has         *)
(*          returned: its topic, id and dedupe flag                        *)
(*   pfail  whether a callback of that call raised                          *)
(*   rec    the pairs that delivered dedupe publishes have recorded, the   *)
(*          oldest first                                                   *)
(*   after  for each call, as it was when the call began: prev, whether    *)
(*          the window had forgotten the call's pair, the callbacks        *)
(*          subscribed under a key that matches the call's topic, and      *)
(*          those subscribed under several such keys                       *)
(*   sig    the signal publishes of the adaptor, in order: the detector,   *)
(*          the id, the callbacks gathered and the callbacks subscribed    *)
(*   nev    ohlcv events published to the adaptor                          *)
(*   ids    the ids the bus allocated to the calls that gave none, in the  *)
(*          order of the calls                                             *)
(*   evs    the bars published to the adaptor, in order: the call, the     *)
(*          topic, the detectors listed for the topic, whether the adaptor *)
(*          was bound, whether a handler of the adaptor got the bar, and   *)
(*          whether that handler is still at work                          *)
(*   inv    the calls of check made for those bars, in order: the bar, the *)
(*          detector, the outcome                                          *)
(***************************************************************************)
NoPrev == <<>>

PrevOf(f) == <<f.topic, f.msg_id, f.dedupe>>

Record(rec, p) == Append(SelectSeq(rec, LAMBDA x : x # p), p)

\* p was recorded and at least n distinct pairs were recorded after it
Forgotten(rec, p, n) == \E i \in 1..Len(rec) : rec[i] = p /\ Len(rec) - i >= n

Subscribed(b, topic) ==
  {cb \in UNION {b.subs[k] : k \in DOMAIN b.subs} :
     \E k \in DOMAIN b.subs : cb \in b.subs[k] /\ key_matches(<<>>, k, topic)}

\* the callbacks subscribed under two keys or more that match the topic
SubscribedTwice(b, topic) ==
  {cb \in Subscribed(b, topic) :
     Cardinality({k \in DOMAIN b.subs : cb \in b.subs[k] /\ key_matches(<<>>, k, topic)}) > 1}

Recording(f) == f.dedupe /\ f.state = "returned" /\ ~f.suppressed

\* a call begins: it is now the most recent one
HistBegin(h, W) ==
  LET f == W.calls[W.id]
      p == <<f.topic, f.msg_id>>
  IN [prev |-> IF f.state = "returned" THEN PrevOf(f) ELSE NoPrev,
      pfail |-> FALSE,
      newest |-> W.id,
      rec |-> IF Recording(f) THEN Record(h.rec, p) ELSE h.rec,
      sig |-> h.sig, nev |-> h.nev, evs |-> h.evs, inv |-> h.inv,
      ids |-> IF f.arg = None THEN Append(h.ids, f.msg_id) ELSE h.ids,
      after |-> [c \in DOMAIN W.calls |->
                   IF c = W.id
                   THEN [prev |-> h.prev, pfail |-> h.pfail, forgotten |-> Forgotten(h.rec, p, W.bus.maxlen),
                         matched |-> Subscribed(W.bus, f.topic),
                         multi |-> SubscribedTwice(W.bus, f.topic)]
                   ELSE h.after[c]]]

\* a suspended call ends
HistReturn(h, W) ==
  LET f == W.calls[W.id]
  IN [h EXCEPT !.prev = IF h.newest = W.id /\ f.state = "returned" THEN PrevOf(f) ELSE @,
               !.pfail = IF h.newest = W.id /\ f.state = "returned"
                         THEN \E cb \in DOMAIN f.cbs : f.cbs[cb].st = "failed" ELSE @,
               !.rec = IF Recording(f) THEN Record(@, <<f.topic, f.msg_id>>) ELSE @]

\* the caller has taken the result of call c
HistDrop(h, c) ==
  [h EXCEPT !.after = [d \in DOMAIN h.after \ {c} |-> h.after[d]],
            !.newest = IF @ = c THEN 0 ELSE @]

NoHist ==
  [prev |-> NoPrev, pfail |-> FALSE, newest |-> 0, rec |-> <<>>, sig |-> <<>>, nev |-> 0, ids |-> <<>>,
   evs |-> <<>>, inv |-> <<>>, after |-> <<>>]

(***************************************************************************)
(* SignalAdaptor (adapters.py).  A detector is its name, symbol and        *)
(* interval; the handler bound for a topic is named after the topic.       *)
(***************************************************************************)
SymA == <<"A">>

SymB == <<"B">>

Iv1s == <<"1", "s">>

G1 == [name |-> "g1", symbol |-> SymA, interval |-> Iv1s]

G2 == [name |-> "g2", symbol |-> SymA, interval |-> Iv1s]

G3 == [name |-> "g3", symbol |-> SymB, interval |-> Iv1s]

Handler(topic) == <<"h">> \o topic

IsHandler(cb) == cb[1] = "h"

HandlerTopic(cb) == Tail(cb)

\* setdefault(topic, []).append(gen)
append_gen(by_topic, gen) ==
  LET topic == Topics_ohlcv(gen.symbol, gen.interval)
  IN [t \in DOMAIN by_topic \cup {topic} |->
        IF t = topic
        THEN Append(IF topic \in DOMAIN by_topic THEN by_topic[topic] ELSE <<>>, gen)
        ELSE by_topic[t]]

RECURSIVE by_topic_of(_)
by_topic_of(gens) ==
  IF gens = <<>> THEN <<>>
  ELSE append_gen(by_topic_of(SubSeq(gens, 1, Len(gens) - 1)), gens[Len(gens)])

\* __init__
SignalAdaptor(gens) == [by_topic |-> by_topic_of(gens), handlers |-> <<>>, bound |-> FALSE]

\* the outcomes of a detector's check: no result, a signal, an exception
Outcomes == {"none", "signal", "raise"}

\* the publish of _dispatch_for_topic without dedupe
signal_publish_again(W, caller, gen, msg_id) ==
  publish(W, caller, Topics_signal(gen.symbol, gen.interval), gen.name, Some(msg_id), FALSE)

\* the publish of _dispatch_for_topic (lines 91-96)
signal_publish(W, caller, gen, msg_id) ==
  publish(W, caller, Topics_signal(gen.symbol, gen.interval), gen.name, Some(msg_id), TRUE)

\* the bars that call c is delivering
EvOf(h, c) == {n \in 1..Len(h.evs) : h.evs[n].call = c /\ h.evs[n].live}

\* gen.check(df) is called for call c and ends with out
Invoked(h, c, gen, out) ==
  [h EXCEPT !.inv = @ \o [i \in 1..Cardinality(EvOf(h, c)) |->
                            [ev |-> CHOOSE n \in EvOf(h, c) : TRUE, gen |-> gen.name, out |-> out]]]

\* the handler of call c has run to its end
Handled(h, c) == [h EXCEPT !.evs = [n \in DOMAIN @ |-> IF n \in EvOf(h, c)
                                                       THEN [@[n] EXCEPT !.live = FALSE] ELSE @[n]]]

SigRecord(f, a) ==
  [gen |-> f.payload, msg_id |-> f.msg_id, cbs |-> DOMAIN f.cbs, matched |-> a.matched]

\* _dispatch_for_topic without the handler of line 86: the exception of check
\* ends the handler
RECURSIVE dispatch_unguarded(_, _, _, _, _)
dispatch_unguarded(X, c, h, i, outs) ==
  LET gens == adaptor.by_topic[HandlerTopic(h)]
  IN IF i > Len(gens)
     THEN [X EXCEPT !.calls[c].cbs[h] = [st |-> "ok", at |-> 0],
                    !.hist = Handled(@, c)]
     ELSE IF outs[i] = "raise"
     THEN [X EXCEPT !.calls[c].cbs[h] = [st |-> "failed", at |-> 0],
                    !.hist = Handled(Invoked(@, c, gens[i], outs[i]), c)]
     ELSE IF outs[i] = "none"
     THEN dispatch_unguarded([X EXCEPT !.hist = Invoked(@, c, gens[i], outs[i])],
                             c, h, i + 1, outs)
     ELSE LET W == signal_publish([bus |-> X.bus, calls |-> X.calls], <<"cb", c, h>>,
                                  gens[i], X.calls[c].msg_id)
              f == W.calls[W.id]
              h1 == HistBegin(Invoked(X.hist, c, gens[i], outs[i]), W)
              h2 == [h1 EXCEPT !.sig = Append(@, SigRecord(f, h1.after[W.id]))]
          IN IF f.state = "returned"
             THEN dispatch_unguarded([bus |-> W.bus, calls |-> Drop(W.calls, W.id),
                                      hist |-> HistDrop(h2, W.id)], c, h, i + 1, outs)
             ELSE [bus |-> W.bus, hist |-> h2,
                   calls |-> [W.calls EXCEPT ![c].cbs[h].at = i]]

\* _dispatch_for_topic from detector i on, as far as it runs without suspending:
\* to the end of the list, or into a publish that waits for its callbacks.
\* X is the bus, the calls and what was observed; outs are the detectors' outcomes
RECURSIVE dispatch_for_topic(_, _, _, _, _)
dispatch_for_topic(X, c, h, i, outs) ==
  LET gens == adaptor.by_topic[HandlerTopic(h)]
  IN IF i > Len(gens)
     THEN [X EXCEPT !.calls[c].cbs[h] = [st |-> "ok", at |-> 0],
                    !.hist = Handled(@, c)]
     ELSE IF outs[i] # "signal"
     THEN dispatch_for_topic([X EXCEPT !.hist = Invoked(@, c, gens[i], outs[i])],
                             c, h, i + 1, outs)
     ELSE LET W == signal_publish([bus |-> X.bus, calls |-> X.calls], <<"cb", c, h>>,
                                  gens[i], X.calls[c].msg_id)
              f == W.calls[W.id]
              h1 == HistBegin(Invoked(X.hist, c, gens[i], outs[i]), W)
              h2 == [h1 EXCEPT !.sig = Append(@, SigRecord(f, h1.after[W.id]))]
          IN IF f.state = "returned"
             THEN dispatch_for_topic([bus |-> W.bus, calls |-> Drop(W.calls, W.id),
                                      hist |-> HistDrop(h2, W.id)], c, h, i + 1, outs)
             ELSE [bus |-> W.bus, hist |-> h2,
                   calls |-> [W.calls EXCEPT ![c].cbs[h].at = i]]

(***************************************************************************)
(* Intervals (helpers.py, interval_seconds and class Interval).            *)
(***************************************************************************)
Whitespace == {" ", "\t", "\n"}

RECURSIVE lstrip(_)
lstrip(s) == IF s # <<>> /\ Head(s) \in Whitespace THEN lstrip(Tail(s)) ELSE s

RECURSIVE rstrip(_)
rstrip(s) ==
  IF s # <<>> /\ s[Len(s)] \in Whitespace THEN rstrip(SubSeq(s, 1, Len(s) - 1)) ELSE s

strip(s) == rstrip(lstrip(s))

lower_char(ch) ==
  CASE ch = "S" -> "s" [] ch = "M" -> "m" [] ch = "H" -> "h" [] ch = "D" -> "d"
    [] OTHER -> ch

lower(s) == [i \in 1..Len(s) |-> lower_char(s[i])]

Digits == <<"0", "1", "2", "3", "4", "5", "6", "7", "8", "9">>

\* one character each: ARABIC-INDIC DIGIT THREE, a decimal digit of value 3, and
\* SUPERSCRIPT TWO, a digit for str.isdigit that int() does not accept
ArabicThree == "U+0663"

SuperTwo == "U+00B2"

\* str.isdigit
isdigit(s) ==
  /\ s # <<>>
  /\ \A i \in 1..Len(s) :
       s[i] \in {ArabicThree, SuperTwo} \/ \E k \in 1..Len(Digits) : Digits[k] = s[i]

\* whether int(s) returns for a string that passed isdigit, and what
int_accepts(s) == \A i \in 1..Len(s) : s[i] # SuperTwo

decimal(ch) ==
  IF ch = ArabicThree THEN 3 ELSE (CHOOSE k \in 1..Len(Digits) : Digits[k] = ch) - 1

RECURSIVE int(_)
int(s) ==
  IF s = <<>> THEN 0
  ELSE 10 * int(SubSeq(s, 1, Len(s) - 1)) + decimal(s[Len(s)])

\* a table that gives an hour the seconds of a minute
unit_seconds_short(unit) ==
  CASE unit = "s" -> Some(1) [] unit = "m" -> Some(60) [] unit = "h" -> Some(60)
    [] unit = "d" -> Some(86400) [] OTHER -> None

\* the table {'s':1, 'm':60, 'h':3600, 'd':86400}.get(unit)
unit_seconds(unit) ==
  CASE unit = "s" -> Some(1) [] unit = "m" -> Some(60) [] unit = "h" -> Some(3600)
    [] unit = "d" -> Some(86400) [] OTHER -> None

\* Some(seconds), or None where the code raises ValueError
interval_seconds(interval) ==
  LET s == lower(strip(interval))
  IN IF Len(s) < 2 \/ ~isdigit(SubSeq(s, 1, Len(s) - 1)) THEN None
     ELSE IF ~int_accepts(SubSeq(s, 1, Len(s) - 1)) THEN None
     ELSE LET unit == s[Len(s)]
              val == int(SubSeq(s, 1, Len(s) - 1))
              sec == unit_seconds(unit)
          IN IF sec = None \/ val <= 0 THEN None ELSE Some(sec[1] * val)

(***************************************************************************)
(* The OhlcvFeed (marketdata.py).                                          *)
(*   tasks     _tasks: the key (symbol, interval) to the task created      *)
(*   stopping  _stopping.is_set()                                          *)
(*   loops     the tasks created, each a run of _run:                      *)
(*     pc      "new" (created, not yet run), "sleep" (in wait_for),        *)
(*             "fetch" (in to_thread), "publish" (in bus.publish),         *)
(*             "cancelling" / "waking" (cancel() called, not yet run),     *)
(*             "done" (returned), "failed" (an exception left _run),       *)
(*             "cancelled"                                                 *)
(*     now     the time read last (line 94), wake: next_run; both in       *)
(*             milliseconds                                                *)
(*     cycles  fetches begun; pubs: calls of bus.publish made              *)
(*     failed  the time of the fetch that failed last, until a fetch       *)
(*             succeeds                                                    *)
(*     why     what ended the task                                         *)
(*   stop      the stop() call: "idle", "waiting" (in gather), "returned"  *)
(*   stopped   the tasks stop() cancelled and gathers                      *)
(***************************************************************************)
\* OhlcvFeed(client, bus, buffer_seconds=...)
BufferSeconds == 1
\* the clock advances by this many milliseconds, up to MaxClock
TickMs == 500
MaxClock == 4000
\* fetches one loop begins
MaxCycles == 2
\* tasks the feed creates
MaxTasks == 3

\* get_server_time() is in milliseconds
MsPerSecond == 1000

Terminal == {"done", "failed", "cancelled"}

NoFeed == [tasks |-> <<>>, stopping |-> FALSE, loops |-> <<>>, stop |-> "idle", stopped |-> {}]

\* asyncio.create_task(self._run(symbol, interval)) and its entry in _tasks
create_task(f, key) ==
  [f EXCEPT !.tasks = [k \in DOMAIN f.tasks \cup {key} |->
                         IF k = key THEN Len(f.loops) + 1 ELSE f.tasks[k]],
            !.loops = Append(@, [key |-> key, sec |-> 0, pc |-> "new", now |-> 0, wake |-> 0,
                                 call |-> 0,
                                 cycles |-> 0, pubs |-> 0, failed |-> None, why |-> None])]

\* start without the test of the key: a task is created at each call
start_unguarded(f, key) == create_task(f, key)

\* start (lines 36-44)
start(f, key) == IF key \in DOMAIN f.tasks THEN f ELSE create_task(f, key)

\* a fire time that is one interval and the buffer after now
next_run_unaligned(now, sec) == now + sec * MsPerSecond + BufferSeconds * MsPerSecond

\* next_run of line 95, in milliseconds
next_run(now, sec) ==
  ((now \div (sec * MsPerSecond)) + 1) * sec * MsPerSecond + BufferSeconds * MsPerSecond

\* to_thread(fetch_ohlcv) begins (line 104)
fetch_begin(l) == [l EXCEPT !.pc = "fetch", !.cycles = @ + 1]

\* one pass from the top of the try of line 93 to the next suspension:
\* get_server_time returns, raises TimeoutError, or raises something else
TimeReads == {"ok", "timeout", "error"}

loop_body(l, tr, now) ==
  CASE tr = "error" -> [l EXCEPT !.pc = "failed", !.why = Some("time")]
    [] tr = "timeout" -> fetch_begin(l)
    [] OTHER -> [l EXCEPT !.pc = "sleep", !.now = now, !.wake = next_run(now, l.sec)]

\* a loop that does not test _stopping
loop_top_unconditional(l, stopping, tr, now) == loop_body(l, tr, now)

\* the test of the while of line 91, then the body
loop_top(l, stopping, tr, now) ==
  IF stopping THEN [l EXCEPT !.pc = "done", !.why = Some("stop")]
  ELSE loop_body(l, tr, now)

\* the close time of the last closed bar that fetch_ohlcv returns
close_time(now, sec) == (now \div (sec * MsPerSecond)) * sec * MsPerSecond - 1

\* the series fetch_ohlcv returns, as the close times of its bars: the last
\* closed bar and, when there is one, the bar before it
fetch_ohlcv(now, sec) ==
  LET last == close_time(now, sec)
  IN IF last >= sec * MsPerSecond THEN <<last - sec * MsPerSecond, last>> ELSE <<last>>

\* the close time of the first bar of the series
first_close(df) == IF df = <<>> THEN None ELSE Some(df[1])

\* close_time of lines 115-118: int(df.iloc[-1]['close_time']), None when that raises
last_close(df) == IF df = <<>> THEN None ELSE Some(df[Len(df)])

\* await bus.publish (line 122): the loop goes on when publish has returned
publish_detached(f) == FALSE

publish_awaited(f) == f.state = "waiting"

\* t.cancel() of line 136 on one task
cancel(l) ==
  IF l.pc \in Terminal THEN l
  ELSE IF l.pc = "sleep" THEN [l EXCEPT !.pc = "waking"]
  ELSE [l EXCEPT !.pc = "cancelling"]

\* the cancellation of a task reaches the gather of its publish and the
\* callbacks gathered
cancel_calls(cs, tids) ==
  [c \in DOMAIN cs |->
     IF cs[c].caller[1] = "feed" /\ cs[c].caller[2] \in tids
     THEN [cs[c] EXCEPT !.state = "cancelled",
                        !.cbs = [cb \in DOMAIN @ |->
                                   IF @[cb].st = "running"
                                   THEN [@[cb] EXCEPT !.st = "cancelled"] ELSE @[cb]]]
     ELSE cs[c]]

(***************************************************************************)
(* The bus on its own: subscribers that finish or raise, and an outside    *)
(* caller that publishes.                                                  *)
(***************************************************************************)
Sink1 == <<"s", "1">>

Sink2 == <<"s", "2">>

Sinks == {Sink1, Sink2}

SignalStar == S_signal \o <<"*">>

SignalA == Topics_signal(SymA, Iv1s)

BusSubs == {<<SignalA, Sink1>>, <<SignalStar, Sink1>>, <<SignalStar, Sink2>>}

BusTopics == {SignalA}

BusMsgIds == {None, Some(1), Some(2)}

\* the tasks outside the bus that call publish, each one call at a time
ExtCallers == {<<"ext", 1>>}

Busy(caller) == \E c \in DOMAIN calls : calls[c].caller = caller

Init ==
  /\ bus = [subs |-> <<>>, glob_cache |-> <<>>, next_id |-> 1,
            seen |-> {}, seen_order |-> <<>>, maxlen |-> DedupeWindow]
  /\ calls = <<>>
  /\ adaptor = SignalAdaptor(<<G1>>)
  /\ hist = NoHist
  /\ feed = NoFeed
  /\ clock = 0
  /\ probe = NoProbe

Subscribe ==
  \E s \in BusSubs :
    /\ bus' = subscribe(bus, s[1], s[2])
    /\ UNCHANGED <<calls, adaptor, hist, feed, clock, probe>>

Unsubscribe ==
  \E s \in BusSubs :
    /\ bus' = unsubscribe(bus, s[1], s[2])
    /\ UNCHANGED <<calls, adaptor, hist, feed, clock, probe>>

Publish ==
  \E caller \in ExtCallers, topic \in BusTopics, msg_id \in BusMsgIds, dedupe \in BOOLEAN :
    /\ ~Busy(caller)
    /\ msg_id = None => bus.next_id <= MaxAutoId
    /\ LET W == publish(World, caller, topic, "x", msg_id, dedupe)
       IN bus' = W.bus /\ calls' = W.calls /\ hist' = HistBegin(hist, W) /\ UNCHANGED <<adaptor, feed, clock, probe>>

\* a subscriber returns or raises
CallbackFinish ==
  \E c \in DOMAIN calls : \E cb \in DOMAIN calls[c].cbs \cap Sinks :
    \E r \in {"ok", "failed"} :
      /\ calls[c].state = "waiting"
      /\ calls[c].cbs[cb].st = "running"
      /\ calls' = [calls EXCEPT ![c].cbs[cb].st = r]
      /\ UNCHANGED <<bus, adaptor, hist, feed, clock, probe>>

\* gather has every result: the publisher resumes and returns to the outside caller
PublishReturn ==
  \E c \in DOMAIN calls :
    /\ calls[c].state = "waiting"
    /\ gather(calls[c]) # "pending"
    /\ calls[c].caller[1] = "ext"
    /\ LET W == publish_finish(World, c)
       IN bus' = W.bus /\ calls' = W.calls /\ hist' = HistReturn(hist, W) /\ UNCHANGED <<adaptor, feed, clock, probe>>

\* the outside caller goes on with the id publish returned
CallerResumes ==
  \E c \in DOMAIN calls :
    /\ calls[c].state \in Ended
    /\ calls[c].caller[1] = "ext"
    /\ calls' = Drop(calls, c)
    /\ hist' = HistDrop(hist, c)
    /\ UNCHANGED <<bus, adaptor, feed, clock, probe>>

Next ==
  \/ Subscribe
  \/ Unsubscribe
  \/ Publish
  \/ CallbackFinish
  \/ PublishReturn
  \/ CallerResumes

Spec == Init /\ [][Next]_vars

(***************************************************************************)
(* The adaptor on the bus: an outside caller publishes ohlcv events, the   *)
(* bound handlers run the detectors and publish their signals to a         *)
(* subscriber of 'signal:*'.                                               *)
(***************************************************************************)
XWorld == [bus |-> bus, calls |-> calls, hist |-> hist]

SetXWorld(X) ==
  bus' = X.bus /\ calls' = X.calls /\ hist' = X.hist /\ UNCHANGED <<feed, clock, probe>>

OhlcvA == Topics_ohlcv(SymA, Iv1s)

OhlcvB == Topics_ohlcv(SymB, Iv1s)

InitAdaptor ==
  /\ bus = subscribe([subs |-> <<>>, glob_cache |-> <<>>, next_id |-> 1,
                      seen |-> {}, seen_order |-> <<>>, maxlen |-> DedupeWindow],
                     SignalStar, Sink1)
  /\ calls = <<>>
  /\ adaptor = SignalAdaptor(<<G1>>)
  /\ hist = NoHist
  /\ feed = NoFeed
  /\ clock = 0
  /\ probe = NoProbe

\* a bind that sets the flag and subscribes nothing
bind_flag_only ==
  /\ ~adaptor.bound
  /\ adaptor' = [adaptor EXCEPT !.bound = TRUE]
  /\ UNCHANGED <<bus, calls, hist, feed, clock, probe>>

\* bind
Bind ==
  /\ ~adaptor.bound
  /\ adaptor' = [adaptor EXCEPT !.bound = TRUE,
                                !.handlers = [t \in DOMAIN adaptor.by_topic |-> Handler(t)]]
  /\ bus' = [bus EXCEPT !.subs = [k \in DOMAIN bus.subs \cup DOMAIN adaptor.by_topic |->
                (IF k \in DOMAIN bus.subs THEN bus.subs[k] ELSE {})
                \cup (IF k \in DOMAIN adaptor.by_topic THEN {Handler(k)} ELSE {})]]
  /\ UNCHANGED <<calls, hist, feed, clock, probe>>

\* bind on a bound adaptor returns at once
BindAgain ==
  /\ adaptor.bound
  /\ UNCHANGED vars

RECURSIVE unsubscribe_all(_, _)
unsubscribe_all(b, hs) ==
  IF DOMAIN hs = {} THEN b
  ELSE LET t == CHOOSE t \in DOMAIN hs : TRUE
       IN unsubscribe_all(unsubscribe(b, t, hs[t]), [u \in DOMAIN hs \ {t} |-> hs[u]])

\* unbind without lines 74-75: the handlers stay subscribed
unbind_forgetting ==
  /\ adaptor.bound
  /\ adaptor' = [adaptor EXCEPT !.handlers = <<>>, !.bound = FALSE]
  /\ UNCHANGED <<bus, calls, hist, feed, clock, probe>>

\* unbind
Unbind ==
  /\ adaptor.bound
  /\ bus' = unsubscribe_all(bus, adaptor.handlers)
  /\ adaptor' = [adaptor EXCEPT !.handlers = <<>>, !.bound = FALSE]
  /\ UNCHANGED <<calls, hist, feed, clock, probe>>

\* add without lines 49-54: the detector is listed, nothing is subscribed
add_listing(gen) ==
  /\ Len(append_gen(adaptor.by_topic, gen)[Topics_ohlcv(gen.symbol, gen.interval)]) <= MaxGens
  /\ adaptor' = [adaptor EXCEPT !.by_topic = append_gen(@, gen)]
  /\ UNCHANGED <<bus, calls, hist, feed, clock>>

\* add(gen)
add(gen) ==
    LET topic == Topics_ohlcv(gen.symbol, gen.interval)
        existed == topic \in DOMAIN adaptor.by_topic
        fresh == adaptor.bound /\ ~existed
    IN /\ existed => Len(adaptor.by_topic[topic]) < MaxGens
       /\ adaptor' = [adaptor EXCEPT
            !.by_topic = append_gen(@, gen),
            !.handlers = IF fresh
                         THEN [t \in DOMAIN @ \cup {topic} |->
                                 IF t = topic THEN Handler(topic) ELSE @[t]]
                         ELSE @]
       /\ bus' = IF fresh THEN subscribe(bus, topic, Handler(topic)) ELSE bus
       /\ UNCHANGED <<calls, hist, feed, clock>>

\* a detector of another name, or of another pair, is added
Add == \E gen \in {G2, G3} : add(gen) /\ UNCHANGED probe

\* an ohlcv event is published by an outside caller
PublishOhlcv ==
  \E caller \in ExtCallers, topic \in {OhlcvA, OhlcvB}, msg_id \in {Some(1), Some(2)},
     dedupe \in BOOLEAN :
    /\ ~Busy(caller)
    /\ hist.nev < MaxEvents
    /\ LET W == publish(World, caller, topic, "df", msg_id, dedupe)
       IN /\ bus' = W.bus
          /\ calls' = W.calls
          /\ hist' = [HistBegin(hist, W) EXCEPT !.nev = @ + 1]
          /\ UNCHANGED <<adaptor, feed, clock, probe>>

\* the task of a gathered handler takes its first step
HandlerStart ==
  \E c \in DOMAIN calls : \E h \in DOMAIN calls[c].cbs :
    /\ IsHandler(h)
    /\ calls[c].state = "waiting"
    /\ calls[c].cbs[h] = [st |-> "running", at |-> 0]
    /\ \E outs \in [1..Len(adaptor.by_topic[HandlerTopic(h)]) -> Outcomes] :
         SetXWorld(dispatch_for_topic(XWorld, c, h, 1, outs))
    /\ UNCHANGED <<adaptor, feed, clock, probe>>

\* the signal publish a handler waits for has its results: publish returns and
\* the handler goes on with the next detector
SignalReturn ==
  \E c2 \in DOMAIN calls :
    /\ calls[c2].state = "waiting"
    /\ gather(calls[c2]) # "pending"
    /\ calls[c2].caller[1] = "cb"
    /\ LET c == calls[c2].caller[2]
           h == calls[c2].caller[3]
           W == publish_finish(World, c2)
           X == [bus |-> W.bus, calls |-> Drop(W.calls, c2),
                 hist |-> HistDrop(HistReturn(hist, W), c2)]
       IN \E outs \in [1..Len(adaptor.by_topic[HandlerTopic(h)]) -> Outcomes] :
            SetXWorld(dispatch_for_topic(X, c, h, calls[c].cbs[h].at + 1, outs))
    /\ UNCHANGED <<adaptor, feed, clock, probe>>

SinkFinish == CallbackFinish

OhlcvReturn == PublishReturn

OhlcvCallerResumes == CallerResumes

NextAdaptor ==
  \/ Bind
  \/ BindAgain
  \/ Unbind
  \/ Add
  \/ PublishOhlcv
  \/ HandlerStart
  \/ SignalReturn
  \/ SinkFinish
  \/ OhlcvReturn
  \/ OhlcvCallerResumes

SpecAdaptor == InitAdaptor /\ [][NextAdaptor]_vars

(***************************************************************************)
(* The feed with the bus: the loops of the keys started, a subscriber of   *)
(* one ohlcv topic, the clock of the data source and one call of stop().   *)
(***************************************************************************)
Iv1w == <<"1", "w">>

FeedKeys == {<<SymA, Iv1s>>, <<SymA, Iv1w>>}

FetchResults == {"raise", "empty", "bars"}

InitFeed ==
  /\ bus = subscribe([subs |-> <<>>, glob_cache |-> <<>>, next_id |-> 1,
                      seen |-> {}, seen_order |-> <<>>, maxlen |-> DedupeWindow],
                     OhlcvA, Sink1)
  /\ calls = <<>>
  /\ adaptor = SignalAdaptor(<<>>)
  /\ hist = NoHist
  /\ feed = NoFeed
  /\ clock = 0
  /\ probe = NoProbe

\* the time read of a pass may raise TimeoutError only while the loop may fetch
MayPass(l, tr) == tr = "timeout" => l.cycles < MaxCycles

Tick ==
  /\ clock + TickMs <= MaxClock
  /\ clock' = clock + TickMs
  /\ UNCHANGED <<bus, calls, adaptor, hist, feed, probe>>

Start ==
  \E key \in FeedKeys :
    /\ Len(feed.loops) < MaxTasks
    /\ feed' = start(feed, key)
    /\ UNCHANGED <<bus, calls, adaptor, hist, clock, probe>>

\* the first step of a task: lines 89-97
LoopStart ==
  \E tid \in DOMAIN feed.loops : \E tr \in TimeReads :
    LET l == feed.loops[tid]
        sec == interval_seconds(l.key[2])
    IN /\ l.pc = "new"
       /\ MayPass(l, tr)
       /\ feed' = [feed EXCEPT !.loops[tid] =
                     IF sec = None THEN [l EXCEPT !.pc = "failed", !.why = Some("interval")]
                     ELSE loop_top([l EXCEPT !.sec = sec[1]], feed.stopping, tr, clock)]
       /\ UNCHANGED <<bus, calls, adaptor, hist, clock, probe>>

\* the timeout of wait_for expires (lines 97-104)
Wake ==
  \E tid \in DOMAIN feed.loops :
    LET l == feed.loops[tid]
    IN /\ l.pc = "sleep"
       /\ clock >= l.wake
       /\ l.cycles < MaxCycles
       /\ feed' = [feed EXCEPT !.loops[tid] = fetch_begin(l)]
       /\ UNCHANGED <<bus, calls, adaptor, hist, clock, probe>>

\* fetch_ohlcv raises (lines 110-112) and the loop goes to its top
FetchFails ==
  \E tid \in DOMAIN feed.loops : \E tr \in TimeReads :
    LET l == feed.loops[tid]
    IN /\ l.pc = "fetch"
       /\ MayPass(l, tr)
       /\ feed' = [feed EXCEPT !.loops[tid] =
                     loop_top([l EXCEPT !.failed = Some(clock)], feed.stopping, tr, clock)]
       /\ UNCHANGED <<bus, calls, adaptor, hist, clock, probe>>

\* fetch_ohlcv returns bars or an empty frame; the loop publishes (lines 114-126)
FetchDone ==
  \E tid \in DOMAIN feed.loops : \E r \in FetchResults \ {"raise"} : \E tr \in TimeReads :
    LET l == feed.loops[tid]
        df == IF r = "bars" THEN fetch_ohlcv(clock, l.sec) ELSE <<>>
        W == publish(World, <<"feed", tid>>, Topics_ohlcv(l.key[1], l.key[2]), df,
                     last_close(df), TRUE)
        f == W.calls[W.id]
        l1 == [l EXCEPT !.pubs = @ + 1, !.failed = None]
    IN /\ l.pc = "fetch"
       /\ r = "bars" => clock >= l.sec * MsPerSecond
       /\ r = "empty" => bus.next_id <= MaxAutoId
       /\ bus' = W.bus
       /\ IF publish_awaited(f)
          THEN /\ calls' = W.calls
               /\ feed' = [feed EXCEPT !.loops[tid] = [l1 EXCEPT !.pc = "publish", !.call = W.id]]
          ELSE /\ MayPass(l1, tr)
               /\ calls' = IF f.state \in Ended THEN Drop(W.calls, W.id) ELSE W.calls
               /\ feed' = [feed EXCEPT !.loops[tid] = loop_top(l1, feed.stopping, tr, clock)]
       /\ UNCHANGED <<adaptor, hist, clock, probe>>

\* gather has every result: publish returns to the loop, which goes to its top
FeedPublishReturn ==
  \E tid \in DOMAIN feed.loops : \E tr \in TimeReads :
    LET l == feed.loops[tid]
        W == publish_finish(World, l.call)
    IN /\ l.pc = "publish"
       /\ calls[l.call].state = "waiting"
       /\ gather(calls[l.call]) # "pending"
       /\ MayPass(l, tr)
       /\ bus' = W.bus
       /\ calls' = Drop(W.calls, l.call)
       /\ feed' = [feed EXCEPT !.loops[tid] =
                     loop_top([l EXCEPT !.call = 0], feed.stopping, tr, clock)]
       /\ UNCHANGED <<adaptor, hist, clock, probe>>

\* a stop() that cancels the tasks and does not set the event
stop_cancelling_only ==
  LET tasks == {feed.tasks[k] : k \in DOMAIN feed.tasks}
  IN /\ feed.stop = "idle"
     /\ feed' = [feed EXCEPT !.loops = [i \in DOMAIN @ |-> IF i \in tasks THEN cancel(@[i]) ELSE @[i]],
                             !.stopped = tasks,
                             !.stop = IF tasks = {} THEN "returned" ELSE "waiting"]
     /\ calls' = cancel_calls(calls, tasks)
     /\ UNCHANGED <<bus, adaptor, hist, clock, probe>>

\* stop() up to its gather (lines 132-137); with no task it runs to its end
StopBegin ==
  LET tasks == {feed.tasks[k] : k \in DOMAIN feed.tasks}
  IN /\ feed.stop = "idle"
     /\ feed' = [feed EXCEPT !.stopping = TRUE,
                             !.loops = [i \in DOMAIN @ |-> IF i \in tasks THEN cancel(@[i]) ELSE @[i]],
                             !.stopped = tasks,
                             !.stop = IF tasks = {} THEN "returned" ELSE "waiting"]
     /\ calls' = cancel_calls(calls, tasks)
     /\ UNCHANGED <<bus, adaptor, hist, clock, probe>>

\* a cancelled task runs for the last time: CancelledError leaves _run; a
\* wait_for whose event was set as it was cancelled may return instead
LoopCancelled ==
  \E tid \in DOMAIN feed.loops : \E end \in {"cancelled", "done"} :
    LET l == feed.loops[tid]
    IN /\ l.pc \in {"cancelling", "waking"}
       /\ end = "done" => l.pc = "waking"
       /\ feed' = [feed EXCEPT !.loops[tid] = [l EXCEPT !.pc = end, !.call = 0, !.why = Some("stop")]]
       /\ calls' = [c \in {d \in DOMAIN calls : calls[d].caller # <<"feed", tid>>} |-> calls[c]]
       /\ UNCHANGED <<bus, adaptor, hist, clock, probe>>

\* the gather of stop() has every task: _tasks.clear() (line 138)
StopReturn ==
  /\ feed.stop = "waiting"
  /\ \A tid \in feed.stopped : feed.loops[tid].pc \in Terminal
  /\ feed' = [feed EXCEPT !.tasks = <<>>, !.stop = "returned"]
  /\ UNCHANGED <<bus, calls, adaptor, hist, clock, probe>>

FeedSinkFinish == CallbackFinish

NextFeed ==
  \/ Tick
  \/ Start
  \/ LoopStart
  \/ Wake
  \/ FetchFails
  \/ FetchDone
  \/ FeedSinkFinish
  \/ FeedPublishReturn
  \/ StopBegin
  \/ LoopCancelled
  \/ StopReturn

SpecFeed == InitFeed /\ [][NextFeed]_vars

(***************************************************************************)
(* Dedupe.                                                                 *)
(***************************************************************************)
\* call c is a dedupe publish that began right after a dedupe publish of the
\* same topic and id had returned
SecondCall(c) ==
  /\ calls[c].dedupe
  /\ hist.after[c].prev = <<calls[c].topic, calls[c].msg_id, TRUE>>

\* C1: of two sequential publish(topic, payload, msg_id=m, dedupe=True) calls the
\* second invokes no callback and returns m at once, so both together invoke a
\* subscriber at most once
C1_DedupeIdempotence ==
  \A c \in DOMAIN calls :
    SecondCall(c) =>
      /\ calls[c].suppressed
      /\ DOMAIN calls[c].cbs = {}
      /\ calls[c].state = "returned"
      /\ calls[c].ret = Some(calls[c].msg_id)

\* a second call has returned while a subscriber matches its topic
C1_Witness ==
  \E c \in DOMAIN calls :
    /\ SecondCall(c)
    /\ calls[c].state = "returned"
    /\ calls[c].arg # None
    /\ hist.after[c].matched = Sinks

\* C2: a dedupe publish of a pair that the window has forgotten (at least
\* DedupeWindow distinct pairs were recorded after it) is not suppressed: it is
\* delivered to the matching subscribers again
C2_EvictedPairDeliveredAgain ==
  \A c \in DOMAIN calls :
    (calls[c].dedupe /\ hist.after[c].forgotten /\ hist.after[c].matched # {}) =>
      /\ ~calls[c].suppressed
      /\ DOMAIN calls[c].cbs = hist.after[c].matched

(***************************************************************************)
(* Fan-out.                                                                *)
(***************************************************************************)
SomeFailed(f) == \E cb \in DOMAIN f.cbs : f.cbs[cb].st = "failed"

\* C10: when a callback of a publish raises, publish does not raise: the call
\* goes on waiting for the other callbacks, none of them is cancelled, and once
\* they have run to completion publish returns the message id
C10_FanOutIsolation ==
  \A c \in DOMAIN calls :
    SomeFailed(calls[c]) =>
      /\ calls[c].state \in {"waiting", "returned"}
      /\ \A cb \in DOMAIN calls[c].cbs : calls[c].cbs[cb].st # "cancelled"
      /\ calls[c].state = "returned" =>
           /\ calls[c].ret = Some(calls[c].msg_id)
           /\ \A cb \in DOMAIN calls[c].cbs : calls[c].cbs[cb].st \in {"ok", "failed"}

\* a publish has returned its id although one of its two callbacks raised
C10_Witness ==
  \E c \in DOMAIN calls :
    /\ calls[c].state = "returned"
    /\ calls[c].ret = Some(calls[c].msg_id)
    /\ DOMAIN calls[c].cbs = Sinks
    /\ calls[c].cbs[Sink1].st = "failed"
    /\ calls[c].cbs[Sink2].st = "ok"

(***************************************************************************)
(* Signals of the adaptor.                                                 *)
(***************************************************************************)
\* the first signal publish of its detector for its bar
FirstForBar(i) ==
  \A j \in 1..(i - 1) :
    hist.sig[j].gen # hist.sig[i].gen \/ hist.sig[j].msg_id # hist.sig[i].msg_id

\* C3: each non-empty detector result is published on the signal topic and
\* delivered to the subscribers of that topic, however many detectors share
\* the ohlcv topic (stated for a detector's first result for a bar: a bar
\* that is delivered again is the case of C4)
C3_RepublishCompleteness ==
  \A i \in 1..Len(hist.sig) : FirstForBar(i) => hist.sig[i].cbs = hist.sig[i].matched

\* C4: the subscribers of the signal topic receive at most one signal from a
\* given detector for a given bar (message id), however often the bar is
\* delivered to the adaptor
C4_AtMostOncePerBar ==
  \A i, j \in 1..Len(hist.sig) :
    (i < j /\ hist.sig[i].gen = hist.sig[j].gen /\ hist.sig[i].msg_id = hist.sig[j].msg_id)
      => hist.sig[i].cbs \cap hist.sig[j].cbs = {}

\* a detector has produced a signal twice for one bar: the first was delivered,
\* the second found the subscriber and was suppressed
C4_Witness ==
  \E i, j \in 1..Len(hist.sig) :
    /\ i < j
    /\ hist.sig[i].gen = hist.sig[j].gen
    /\ hist.sig[i].msg_id = hist.sig[j].msg_id
    /\ hist.sig[i].cbs = {Sink1}
    /\ hist.sig[j].matched = {Sink1}
    /\ hist.sig[j].cbs = {}

(***************************************************************************)
(* The scheduler.                                                          *)
(***************************************************************************)
Loops == DOMAIN feed.loops

LoopsOf(key) == {tid \in Loops : feed.loops[tid].key = key}

FeedCalls(tid) == {c \in DOMAIN calls : calls[c].caller = <<"feed", tid>>}

\* C5: stop() sets the stop signal and cancels every task of the table, it
\* returns only when each of them has finished, and once it has returned no
\* loop publishes, a loop started during or after the stop included
C5_SchedulerShutdown ==
  /\ [](feed.stop # "idle" =>
          /\ feed.stopping
          /\ \A tid \in feed.stopped :
               feed.loops[tid].pc \in Terminal \cup {"cancelling", "waking"}
          /\ \A tid \in Loops \ feed.stopped : feed.loops[tid].pubs = 0)
  /\ [](feed.stop = "returned" => \A tid \in feed.stopped : feed.loops[tid].pc \in Terminal)
  /\ [][feed.stop = "returned" =>
          \A tid \in DOMAIN feed'.loops :
            feed'.loops[tid].pubs = IF tid \in Loops THEN feed.loops[tid].pubs ELSE 0]_vars

\* stop() has returned: it cancelled a loop that had published, and a loop
\* started since has run and ended
C5_Witness ==
  /\ feed.stop = "returned"
  /\ \E tid \in feed.stopped : feed.loops[tid].pc = "cancelled" /\ feed.loops[tid].pubs > 0
  /\ \E tid \in Loops \ feed.stopped : feed.loops[tid].pc = "done"

\* C6: a start for a key of the table creates no task, so that until stop()
\* the loop recorded for a key is the only loop created for it
C6_StartIdempotence ==
  /\ [](feed.stop = "idle" =>
          \A key \in FeedKeys :
            IF key \in DOMAIN feed.tasks THEN LoopsOf(key) = {feed.tasks[key]}
            ELSE LoopsOf(key) = {})
  /\ [][\A key \in DOMAIN feed.tasks :
          {tid \in DOMAIN feed'.loops : feed'.loops[tid].key = key} = LoopsOf(key)]_vars

\* the loop of a key polls and start can be called for the key again
C6_Witness ==
  /\ feed.stop = "idle"
  /\ Len(feed.loops) < MaxTasks
  /\ \E key \in DOMAIN feed.tasks :
       feed.loops[feed.tasks[key]].pc = "sleep" /\ feed.loops[feed.tasks[key]].pubs > 0

\* C7: a loop has at most one publish call in progress, and while the call or
\* a callback it gathered has not completed the loop neither sleeps towards
\* its next fire nor fetches; each publish follows a fetch of its own
C7_PerPairSequencing ==
  \A tid \in Loops :
    /\ Cardinality(FeedCalls(tid)) <= 1
    /\ FeedCalls(tid) # {} => feed.loops[tid].pc \in {"publish", "cancelling"}
    /\ feed.loops[tid].pubs <= feed.loops[tid].cycles
    /\ feed.loops[tid].pc = "fetch" => feed.loops[tid].pubs < feed.loops[tid].cycles

\* a loop is in its second fetch after a publish that a subscriber received
C7_Witness ==
  \E tid \in Loops :
    /\ feed.loops[tid].pc = "fetch"
    /\ feed.loops[tid].cycles = 2
    /\ feed.loops[tid].pubs = 1
    /\ \E p \in bus.seen : p[1] = OhlcvA

\* C8: after a fetch that raised, the loop has not ended for a failure, and it
\* fetches again only at or after the fire time next to the failure
C8_FetchFailureRecovery ==
  \A tid \in Loops :
    LET l == feed.loops[tid]
    IN l.failed # None =>
         /\ l.pc # "failed"
         /\ l.pc = "fetch" => clock >= next_run(l.failed[1], l.sec)

\* C9: no loop ends because the data source or the bus publish raised
C9_LoopSurvivesFailures ==
  \A tid \in Loops : feed.loops[tid].why # Some("time")

(***************************************************************************)
(* Matching on its own: one subscriber under one key at a time, and        *)
(* publishes of every short topic.                                         *)
(***************************************************************************)
\* the longest key and topic
MaxKeyLen == 3

Alphabet == {"a", ".", "*", "\n"}

Strings == UNION {[1..n -> Alphabet] : n \in 0..MaxKeyLen}

EmptyBus == [subs |-> <<>>, glob_cache |-> <<>>, next_id |-> 1,
             seen |-> {}, seen_order |-> <<>>, maxlen |-> DedupeWindow]

InitMatch ==
  /\ bus = EmptyBus
  /\ calls = <<>>
  /\ adaptor = SignalAdaptor(<<>>)
  /\ hist = NoHist
  /\ feed = NoFeed
  /\ clock = 0
  /\ probe = NoProbe

MatchSubscribe ==
  \E key \in Strings :
    /\ calls = <<>>
    /\ bus.subs = <<>>
    /\ bus' = subscribe(bus, key, Sink1)
    /\ UNCHANGED <<calls, adaptor, hist, feed, clock, probe>>

MatchUnsubscribe ==
  \E key \in DOMAIN bus.subs :
    /\ calls = <<>>
    /\ bus' = unsubscribe(bus, key, Sink1)
    /\ UNCHANGED <<calls, adaptor, hist, feed, clock, probe>>

MatchPublish ==
  \E topic \in Strings :
    /\ calls = <<>>
    /\ LET W == publish(World, <<"ext", 1>>, topic, "x", Some(1), FALSE)
       IN bus' = W.bus /\ calls' = W.calls
    /\ UNCHANGED <<adaptor, hist, feed, clock, probe>>

MatchCallbackFinish == CallbackFinish

\* publish returns (at once when it gathered nothing) and the caller goes on
MatchReturn ==
  \E c \in DOMAIN calls :
    /\ calls[c].state \in Ended \/ gather(calls[c]) # "pending"
    /\ LET W == IF calls[c].state \in Ended THEN World ELSE publish_finish(World, c)
       IN bus' = W.bus /\ calls' = Drop(W.calls, c)
    /\ UNCHANGED <<adaptor, hist, feed, clock, probe>>

NextMatch ==
  \/ MatchSubscribe
  \/ MatchUnsubscribe
  \/ MatchPublish
  \/ MatchCallbackFinish
  \/ MatchReturn

SpecMatch == InitMatch /\ [][NextMatch]_vars

\* the topic is the key with each '*' replaced by some string
RECURSIVE StarExpands(_, _)
StarExpands(key, topic) ==
  IF key = <<>> THEN topic = <<>>
  ELSE IF key[1] = "*"
       THEN StarExpands(Tail(key), topic) \/ (topic # <<>> /\ StarExpands(key, Tail(topic)))
       ELSE topic # <<>> /\ topic[1] = key[1] /\ StarExpands(Tail(key), Tail(topic))

\* C11: a publish dispatches to the subscriber of a key exactly when the key
\* equals the topic, or contains '*' and the topic is the key with each '*'
\* replaced by some string
C11_WildcardMatching ==
  \A c \in DOMAIN calls : \A key \in DOMAIN bus.subs :
    (Sink1 \in DOMAIN calls[c].cbs)
      <=> (key = calls[c].topic \/ (is_pattern(key) /\ StarExpands(key, calls[c].topic)))

(***************************************************************************)
(* Fan-out.                                                                *)
(***************************************************************************)
\* C12: a publish that is not suppressed creates exactly one coroutine for each
\* callback subscribed under a key that matches its topic, under however many
\* such keys the callback is subscribed
C12_ExactlyOnceFanOut ==
  \A c \in DOMAIN calls \cap DOMAIN hist.after :
    ~calls[c].suppressed =>
      /\ DOMAIN calls[c].coros = hist.after[c].matched
      /\ DOMAIN calls[c].cbs = hist.after[c].matched
      /\ \A cb \in DOMAIN calls[c].coros : calls[c].coros[cb] = 1

\* a callback subscribed under the topic and under a pattern has run for a publish
C12_Witness ==
  \E c \in DOMAIN calls \cap DOMAIN hist.after :
    /\ ~calls[c].suppressed
    /\ Sink1 \in hist.after[c].multi
    /\ calls[c].cbs[Sink1].st = "ok"

(***************************************************************************)
(* Message ids: two callers whose publish calls overlap.                   *)
(***************************************************************************)
IdCallers == {<<"ext", 1>>, <<"ext", 2>>}

InitIds ==
  /\ bus = subscribe(EmptyBus, SignalA, Sink1)
  /\ calls = <<>>
  /\ adaptor = SignalAdaptor(<<>>)
  /\ hist = NoHist
  /\ feed = NoFeed
  /\ clock = 0
  /\ probe = NoProbe

IdsPublish ==
  \E caller \in IdCallers, topic \in {SignalA, OhlcvA}, msg_id \in {None, Some(1)} :
    /\ ~Busy(caller)
    /\ msg_id = None => bus.next_id <= MaxAutoId
    /\ LET W == publish(World, caller, topic, "x", msg_id, FALSE)
       IN bus' = W.bus /\ calls' = W.calls /\ hist' = HistBegin(hist, W)
    /\ UNCHANGED <<adaptor, feed, clock, probe>>

IdsCallbackFinish == CallbackFinish

IdsPublishReturn == PublishReturn

IdsCallerResumes == CallerResumes

NextIds ==
  \/ IdsPublish
  \/ IdsCallbackFinish
  \/ IdsPublishReturn
  \/ IdsCallerResumes

SpecIds == InitIds /\ [][NextIds]_vars

\* C13: the ids the bus allocates are strictly increasing in the order of the
\* allocations, whatever the overlap of the calls: none is given twice
C13_AllocatedIdsIncrease ==
  /\ \A i, j \in 1..Len(hist.ids) : i < j => hist.ids[i] < hist.ids[j]
  /\ \A c, e \in DOMAIN calls :
       (c # e /\ calls[c].arg = None /\ calls[e].arg = None) => calls[c].msg_id # calls[e].msg_id

\* two calls that gave no id are suspended in their gather at the same time
C13_Witness ==
  \E c, e \in DOMAIN calls :
    /\ c # e
    /\ calls[c].arg = None /\ calls[c].state = "waiting"
    /\ calls[e].arg = None /\ calls[e].state = "waiting"
    /\ Len(hist.ids) >= 2

\* C14: a publish that dispatched callbacks has returned only when each of them
\* has finished or raised, and has no result while one of them runs
C14_PublishCompletion ==
  \A c \in DOMAIN calls :
    /\ (calls[c].state = "returned" /\ ~calls[c].suppressed) =>
         \A cb \in DOMAIN calls[c].cbs : calls[c].cbs[cb].st \in {"ok", "failed"}
    /\ (\E cb \in DOMAIN calls[c].cbs : calls[c].cbs[cb].st = "running") =>
         calls[c].state = "waiting" /\ calls[c].ret = None

\* a publish has returned after both its callbacks finished
C14_Witness ==
  \E c \in DOMAIN calls :
    /\ calls[c].state = "returned"
    /\ DOMAIN calls[c].cbs = Sinks
    /\ \A cb \in Sinks : calls[c].cbs[cb].st = "ok"

Pair(c) == <<calls[c].topic, calls[c].msg_id>>

\* C15: a dedupe publish records its pair only when its dispatch has completed,
\* it records it also when callbacks raised, and the dedupe publish of the pair
\* that follows is then suppressed, for the subscriber that raised too
C15_DedupeRecordTiming ==
  \A c \in DOMAIN calls :
    (calls[c].dedupe /\ ~calls[c].suppressed) =>
      /\ calls[c].state = "waiting" => Pair(c) \notin bus.seen
      /\ calls[c].state = "returned" => Pair(c) \in bus.seen
      /\ ~(SecondCall(c) /\ hist.after[c].pfail)

\* a dedupe publish whose pair the previous call recorded although a callback
\* of it raised: it is suppressed while the subscribers still match
C15_Witness ==
  \E c \in DOMAIN calls :
    /\ SecondCall(c)
    /\ hist.after[c].pfail
    /\ calls[c].suppressed
    /\ hist.after[c].matched = Sinks
    /\ Pair(c) \in bus.seen

(***************************************************************************)
(* Fire times.                                                             *)
(***************************************************************************)
\* ceil(now / D) * D + B, in milliseconds
CeilFire(now, sec) ==
  ((now + sec * MsPerSecond - 1) \div (sec * MsPerSecond)) * sec * MsPerSecond
    + BufferSeconds * MsPerSecond

Sleeping == {tid \in Loops : feed.loops[tid].pc = "sleep"}

\* C16 as stated: the fire time a loop sleeps towards is ceil(now / D) * D + B
\* for the time now it read, also when now is an exact multiple of D
C16_FireTimeIsCeil ==
  \A tid \in Sleeping :
    feed.loops[tid].wake = CeilFire(feed.loops[tid].now, feed.loops[tid].sec)

\* C16 amended: the fire time is (floor(now / D) + 1) * D + B, which is
\* ceil(now / D) * D + B unless now is an exact multiple of D, and then
\* now + D + B
C16_FireTimeAfterNow ==
  \A tid \in Sleeping :
    LET l == feed.loops[tid]
    IN IF l.now % (l.sec * MsPerSecond) = 0
       THEN l.wake = l.now + l.sec * MsPerSecond + BufferSeconds * MsPerSecond
       ELSE l.wake = CeilFire(l.now, l.sec)

\* a loop that has fetched sleeps from a time it read that is an exact multiple
\* of its interval
C16_Witness ==
  \E tid \in Sleeping :
    /\ feed.loops[tid].cycles > 0
    /\ feed.loops[tid].now > 0
    /\ feed.loops[tid].now % (feed.loops[tid].sec * MsPerSecond) = 0

(***************************************************************************)
(* What the loops publish.                                                 *)
(***************************************************************************)
FeedPublishes == {c \in DOMAIN calls : calls[c].caller[1] = "feed"}

\* C17 as stated: every publish of a loop has dedupe enabled and is given as
\* its id the close time of the last bar of the series, whatever the series
C17_PublishIdIsLastClose ==
  \A c \in FeedPublishes :
    /\ calls[c].dedupe
    /\ calls[c].arg # None
    /\ calls[c].payload # <<>> => calls[c].msg_id = calls[c].payload[Len(calls[c].payload)]

\* C17 amended: every publish of a loop is on the ohlcv topic of its pair with
\* dedupe enabled; for a series that has bars its id is the close time of the
\* last bar; for an empty series no id is given and the bus allocates one
C17_PublishIdentity ==
  \A c \in FeedPublishes :
    LET f == calls[c]
        l == feed.loops[f.caller[2]]
    IN /\ f.dedupe
       /\ f.topic = S_ohlcv \o l.key[1] \o <<"_">> \o l.key[2]
       /\ f.payload # <<>> => f.arg = Some(f.payload[Len(f.payload)]) /\ f.msg_id = f.arg[1]
       /\ f.payload = <<>> => f.arg = None /\ f.msg_id < bus.next_id

\* a loop has published a series of two bars, and a loop has published an
\* empty series
C17_Witness ==
  \E c \in FeedPublishes :
    /\ Len(calls[c].payload) = 2
    /\ calls[c].state = "waiting"
    /\ bus.next_id > 1

(***************************************************************************)
(* interval_seconds on its own: every short string over a few characters.  *)
(***************************************************************************)
\* the longest interval string
MaxIntervalLen == 3

IntervalChars == {"0", "1", "4", "5", "s", "m", "h", "d", "x", "M", "H", " ", ArabicThree, SuperTwo}

IntervalStrings == UNION {[1..n -> IntervalChars] : n \in 0..MaxIntervalLen}

InitInterval ==
  /\ bus = EmptyBus
  /\ calls = <<>>
  /\ adaptor = SignalAdaptor(<<>>)
  /\ hist = NoHist
  /\ feed = NoFeed
  /\ clock = 0
  /\ probe \in {[interval |-> s, done |-> FALSE, seconds |-> None] : s \in IntervalStrings}

\* Interval(s).seconds: the seconds, or None for ValueError
IntervalSeconds ==
  /\ probe # NoProbe
  /\ ~probe.done
  /\ probe' = [probe EXCEPT !.done = TRUE, !.seconds = interval_seconds(probe.interval)]
  /\ UNCHANGED <<bus, calls, adaptor, hist, feed, clock>>

NextInterval == IntervalSeconds

SpecInterval == InitInterval /\ [][NextInterval]_vars

Units == {"s", "m", "h", "d"}

UnitSeconds(u) == CASE u = "s" -> 1 [] u = "m" -> 60 [] u = "h" -> 3600 [] u = "d" -> 86400

AsciiDigits == {"0", "1", "2", "3", "4", "5", "6", "7", "8", "9"}

DigitValue(ch) ==
  CASE ch = "0" -> 0 [] ch = "1" -> 1 [] ch = "2" -> 2 [] ch = "3" -> 3 [] ch = "4" -> 4
    [] ch = "5" -> 5 [] ch = "6" -> 6 [] ch = "7" -> 7 [] ch = "8" -> 8 [] ch = "9" -> 9
    [] ch = ArabicThree -> 3

\* the number a run of decimal digits writes
RECURSIVE Number(_, _)
Number(s, acc) == IF s = <<>> THEN acc ELSE Number(Tail(s), 10 * acc + DigitValue(Head(s)))

Count(s) == SubSeq(s, 1, Len(s) - 1)

\* <positive integer><unit>, the integer written with the digits given
Grammar(s, digits) ==
  /\ Len(s) >= 2
  /\ \A i \in 1..(Len(s) - 1) : s[i] \in digits
  /\ s[Len(s)] \in Units
  /\ Number(Count(s), 0) > 0

\* s without the white space around it and with its letters in lower case
Inked(s) == {i \in 1..Len(s) : s[i] \notin Whitespace}

Normal(s) ==
  IF Inked(s) = {} THEN <<>>
  ELSE LET a == CHOOSE i \in Inked(s) : \A j \in Inked(s) : i <= j
           b == CHOOSE i \in Inked(s) : \A j \in Inked(s) : i >= j
       IN [i \in 1..(b - a + 1) |->
             CASE s[a + i - 1] = "S" -> "s" [] s[a + i - 1] = "M" -> "m"
               [] s[a + i - 1] = "H" -> "h" [] s[a + i - 1] = "D" -> "d"
               [] OTHER -> s[a + i - 1]]

\* C18 as stated: <positive integer><unit> parses to integer * seconds of the
\* unit ("15m" to 900, "4h" to 14400, "1d" to 86400) and every other string raises
C18_IntervalParsingStrict ==
  (probe # NoProbe /\ probe.done) =>
    IF Grammar(probe.interval, AsciiDigits)
    THEN probe.seconds = Some(Number(Count(probe.interval), 0)
                              * UnitSeconds(probe.interval[Len(probe.interval)]))
    ELSE probe.seconds = None

\* C18 amended: the string is first stripped of surrounding white space and
\* lower-cased, and its integer may be written with any decimal digits; what
\* then has the form <positive integer><unit> parses to integer * seconds of
\* the unit, and every other string raises
C18_IntervalParsing ==
  (probe # NoProbe /\ probe.done) =>
    LET s == Normal(probe.interval)
    IN IF Grammar(s, AsciiDigits \cup {ArabicThree})
       THEN probe.seconds = Some(Number(Count(s), 0) * UnitSeconds(s[Len(s)]))
       ELSE probe.seconds = None

\* " 4H" has parsed to 14400
C18_Witness ==
  /\ probe # NoProbe
  /\ probe.done
  /\ probe.interval = <<" ", "4", "H">>
  /\ probe.seconds = Some(14400)

(***************************************************************************)
(* Configuration errors.                                                   *)
(***************************************************************************)
\* C19: a start with a malformed interval raises to its caller and registers
\* nothing: no key of the task table has an interval that does not parse, and
\* no task meets the error of the interval
C19_FailFastConfiguration ==
  /\ \A key \in DOMAIN feed.tasks : interval_seconds(key[2]) # None
  /\ \A tid \in Loops : feed.loops[tid].why # Some("interval")

(***************************************************************************)
(* start_many (marketdata.py, lines 46-83).  An argument is a tuple or     *)
(* list of strings, a dict of symbol to intervals, given as the sequence   *)
(* of its items, or something else (a str, say).                           *)
(***************************************************************************)
Tuple(elems) == [kind |-> "tuple", elems |-> elems]

Dict(items) == [kind |-> "dict", items |-> items]

NotAPair == [kind |-> "str"]

\* isinstance(it, (tuple, list)) and len(it) == 2 (line 71)
is_pair(it) == it.kind = "tuple" /\ Len(it.elems) = 2

\* lines 63-66: the pairs of a mapping, in the order of its items
RECURSIVE mapping_pairs(_)
mapping_pairs(m) ==
  IF m = <<>> THEN <<>>
  ELSE [i \in 1..Len(m[1][2]) |-> <<m[1][1], m[1][2][i]>>] \o mapping_pairs(Tail(m))

\* lines 69-72, when every item is a pair
tuple_pairs(items) == [i \in 1..Len(items) |-> <<items[i].elems[1], items[i].elems[2]>>]

\* every pair given is started with a new task, whatever was given or started before
RECURSIVE create_each(_, _)
create_each(f, pairs) ==
  IF pairs = <<>> THEN f ELSE create_each(create_task(f, Head(pairs)), Tail(pairs))

\* lines 76-83: start for each pair not met earlier in the call
RECURSIVE start_each(_, _, _)
start_each(f, pairs, seen) ==
  IF pairs = <<>> THEN f
  ELSE IF Head(pairs) \in seen THEN start_each(f, Tail(pairs), seen)
  ELSE start_each(start(f, Head(pairs)), Tail(pairs), seen \cup {Head(pairs)})

start_many_each(f, items) ==
  [feed |-> create_each(f, IF Len(items) = 1 /\ items[1].kind = "dict"
                           THEN mapping_pairs(items[1].items)
                           ELSE tuple_pairs(SelectSeq(items, is_pair))),
   raised |-> FALSE]

\* a start_many that starts each pair as it meets it and raises at the first
\* item that is not a pair
start_many_eager(f, items) ==
  IF Len(items) = 1 /\ items[1].kind = "dict"
  THEN [feed |-> start_each(f, mapping_pairs(items[1].items), {}), raised |-> FALSE]
  ELSE IF \A i \in 1..Len(items) : is_pair(items[i])
  THEN [feed |-> start_each(f, tuple_pairs(items), {}), raised |-> FALSE]
  ELSE LET k == CHOOSE i \in 1..Len(items) :
                  ~is_pair(items[i]) /\ \A j \in 1..(i - 1) : is_pair(items[j])
       IN [feed |-> start_each(f, tuple_pairs(SubSeq(items, 1, k - 1)), {}), raised |-> TRUE]

\* start_many(*items): the feed after the call and whether ValueError was raised
start_many(f, items) ==
  IF Len(items) = 1 /\ items[1].kind = "dict"
  THEN [feed |-> start_each(f, mapping_pairs(items[1].items), {}), raised |-> FALSE]
  ELSE IF \A i \in 1..Len(items) : is_pair(items[i])
  THEN [feed |-> start_each(f, tuple_pairs(items), {}), raised |-> FALSE]
  ELSE [feed |-> f, raised |-> TRUE]

(***************************************************************************)
(* Batches: start and start_many on a feed whose tasks take their first    *)
(* step.  probe holds the start_many call made last: its arguments, the    *)
(* feed before and after it, and whether it raised.                        *)
(***************************************************************************)
\* the most arguments of one start_many call
MaxItems == 3

BatchKeys == {<<SymA, Iv1s>>, <<SymB, Iv1s>>}

BatchItems == {Tuple(k) : k \in BatchKeys} \cup {Tuple(<<SymA>>), NotAPair}

BatchDicts ==
  {Dict(<<<<SymA, <<Iv1s>>>>, <<SymB, <<Iv1s>>>>>>), Dict(<<<<SymA, <<Iv1s, Iv1s>>>>>>),
   Dict(<<>>)}

BatchArgs ==
  UNION {[1..n -> BatchItems] : n \in 0..MaxItems}
    \cup {<<m>> : m \in BatchDicts}
    \cup {<<m, Tuple(<<SymA, Iv1s>>)>> : m \in BatchDicts}

InitBatch ==
  /\ bus = EmptyBus
  /\ calls = <<>>
  /\ adaptor = SignalAdaptor(<<>>)
  /\ hist = NoHist
  /\ feed = NoFeed
  /\ clock = 0
  /\ probe = NoProbe

BatchStart ==
  \E key \in BatchKeys :
    /\ Len(feed.loops) < MaxTasks
    /\ feed' = start(feed, key)
    /\ UNCHANGED <<bus, calls, adaptor, hist, clock, probe>>

StartMany ==
  \E items \in BatchArgs :
    LET r == start_many(feed, items)
    IN /\ Len(feed.loops) < MaxTasks
       /\ feed' = r.feed
       /\ probe' = [items |-> items, before |-> feed, after |-> r.feed, raised |-> r.raised]
       /\ UNCHANGED <<bus, calls, adaptor, hist, clock>>

BatchLoopStart == LoopStart

NextBatch ==
  \/ BatchStart
  \/ StartMany
  \/ BatchLoopStart

SpecBatch == InitBatch /\ [][NextBatch]_vars

\* the pairs a call names: the 2-element tuples given, or the pairs of the
\* mapping given alone
Named(items) ==
  IF Len(items) = 1 /\ items[1].kind = "dict"
  THEN LET m == items[1].items
       IN UNION {{<<m[i][1], m[i][2][j]>> : j \in 1..Len(m[i][2])} : i \in 1..Len(m)}
  ELSE {items[i].elems : i \in {j \in 1..Len(items) : items[j].kind = "tuple"}}

\* the tasks a call created
Launched(p) == (1..Len(p.after.loops)) \ (1..Len(p.before.loops))

\* C20: a start_many call that returns has launched exactly one loop for each
\* pair it names that was not in the task table, whether the pair is named
\* once or several times, and none for a pair that was in the table
C20_BatchStart ==
  (probe # NoProbe /\ ~probe.raised) =>
    LET new == Named(probe.items) \ DOMAIN probe.before.tasks
    IN /\ DOMAIN probe.after.tasks = DOMAIN probe.before.tasks \cup new
       /\ \A key \in DOMAIN probe.before.tasks : probe.after.tasks[key] = probe.before.tasks[key]
       /\ \A key \in new :
            /\ probe.after.tasks[key] \in Launched(probe)
            /\ probe.after.loops[probe.after.tasks[key]].key = key
       /\ Cardinality(Launched(probe)) = Cardinality(new)

\* a call named a pair twice and a pair of the table: one loop was launched
C20_Witness ==
  /\ probe # NoProbe
  /\ ~probe.raised
  /\ probe.items = <<Tuple(<<SymB, Iv1s>>), Tuple(<<SymA, Iv1s>>), Tuple(<<SymB, Iv1s>>)>>
  /\ DOMAIN probe.before.tasks = {<<SymA, Iv1s>>}
  /\ Cardinality(Launched(probe)) = 1

(***************************************************************************)
(* Detectors: the adaptor beside another subscriber of the bars of A and a  *)
(* subscriber of the signals.  Each bar is published once, under its own   *)
(* id.                                                                     *)
(***************************************************************************)
InitDetectors ==
  /\ bus = subscribe(subscribe(EmptyBus, SignalStar, Sink1), OhlcvA, Sink2)
  /\ calls = <<>>
  /\ adaptor = SignalAdaptor(<<G1>>)
  /\ hist = NoHist
  /\ feed = NoFeed
  /\ clock = 0
  /\ probe = NoProbe

\* the names of the detectors listed for a topic
Listed(topic) ==
  IF topic \in DOMAIN adaptor.by_topic
  THEN [i \in 1..Len(adaptor.by_topic[topic]) |-> adaptor.by_topic[topic][i].name]
  ELSE <<>>

\* what is observed of a bar that call c delivers to the callbacks cbs
Event(c, topic, cbs) ==
  [call |-> c, topic |-> topic, gens |-> Listed(topic), bound |-> adaptor.bound,
   got |-> Handler(topic) \in cbs, live |-> Handler(topic) \in cbs]

\* the feed publishes the next bar of a pair
PublishBar ==
  \E caller \in ExtCallers, topic \in {OhlcvA, OhlcvB} :
    /\ ~Busy(caller)
    /\ hist.nev < MaxEvents
    /\ LET W == publish(World, caller, topic, "df", Some(hist.nev + 1), TRUE)
       IN /\ bus' = W.bus
          /\ calls' = W.calls
          /\ hist' = [HistBegin(hist, W) EXCEPT
               !.nev = @ + 1,
               !.evs = Append(@, Event(W.id, topic, DOMAIN W.calls[W.id].cbs))]
          /\ UNCHANGED <<adaptor, feed, clock, probe>>

NextDetectors ==
  \/ Bind
  \/ BindAgain
  \/ Unbind
  \/ Add
  \/ PublishBar
  \/ HandlerStart
  \/ SignalReturn
  \/ SinkFinish
  \/ OhlcvReturn
  \/ OhlcvCallerResumes

SpecDetectors == InitDetectors /\ [][NextDetectors]_vars

(***************************************************************************)
(* Binding: the adaptor beside another subscriber of the bars of A, with   *)
(* nobody subscribed to the signals.  Any detector may be added, one that  *)
(* is registered already included.                                         *)
(***************************************************************************)
InitBinding ==
  /\ bus = subscribe(EmptyBus, OhlcvA, Sink2)
  /\ calls = <<>>
  /\ adaptor = SignalAdaptor(<<G1>>)
  /\ hist = NoHist
  /\ feed = NoFeed
  /\ clock = 0
  /\ probe = NoProbe

\* add(gen); probe holds the call made last: the detector, whether the adaptor
\* was bound, the bars published before it, and the subscription table and
\* the adaptor's lists before and after it
AddDetector ==
  \E gen \in {G1, G2, G3} :
    /\ add(gen)
    /\ probe' = [gen |-> gen.name, topic |-> Topics_ohlcv(gen.symbol, gen.interval),
                 bound |-> adaptor.bound, at |-> hist.nev,
                 subs |-> bus.subs, subs1 |-> bus'.subs,
                 lists |-> adaptor.by_topic, lists1 |-> adaptor'.by_topic]

NextBinding ==
  \/ Bind
  \/ BindAgain
  \/ Unbind
  \/ AddDetector
  \/ PublishBar
  \/ HandlerStart
  \/ SinkFinish
  \/ OhlcvReturn
  \/ OhlcvCallerResumes

SpecBinding == InitBinding /\ [][NextBinding]_vars

\* the keys under which a handler of the adaptor is subscribed on the bus
HandlerKeys == {k \in DOMAIN bus.subs : \E cb \in bus.subs[k] : IsHandler(cb)}

\* the calls of check made for bar n on detector g
Checks(n, g) == {i \in 1..Len(hist.inv) : hist.inv[i].ev = n /\ hist.inv[i].gen = g}

\* a bar whose handler has run to its end
Done(n) == hist.evs[n].got /\ ~hist.evs[n].live

\* C21: a bound adaptor holds exactly one subscription for each ohlcv topic of
\* its detectors, however many detectors share the topic, and each detector
\* is called exactly once for each ohlcv event delivered
C21_OneSubscriptionPerTopic ==
  /\ adaptor.bound =>
       /\ HandlerKeys = DOMAIN adaptor.by_topic
       /\ \A k \in HandlerKeys : {cb \in bus.subs[k] : IsHandler(cb)} = {Handler(k)}
  /\ \A n \in 1..Len(hist.evs) :
       Done(n) =>
         \A i \in 1..Len(hist.evs[n].gens) : Cardinality(Checks(n, hist.evs[n].gens[i])) = 1

\* the calls of check for bar n that ended with out
Outs(n, out) == {i \in 1..Len(hist.inv) : hist.inv[i].ev = n /\ hist.inv[i].out = out}

\* the publish calls the adaptor made for detector g and bar n
SignalsOf(n, g) == {i \in 1..Len(hist.sig) : hist.sig[i].gen = g /\ hist.sig[i].msg_id = n}

\* the frames of the publish call that delivers bar n
BarCalls(n) ==
  {c \in DOMAIN calls : c = hist.evs[n].call /\ calls[c].topic = hist.evs[n].topic
                          /\ calls[c].msg_id = n}

\* C22: when a detector raises for a bar, every detector listed for the topic
\* is still called for that bar, the adaptor calls publish for every result
\* that is not empty, and the adaptor's handler ends without an exception
C22_DetectorIsolation ==
  \A n \in 1..Len(hist.evs) :
    (Done(n) /\ Outs(n, "raise") # {}) =>
      /\ \A i \in 1..Len(hist.evs[n].gens) : Checks(n, hist.evs[n].gens[i]) # {}
      /\ \A g \in {hist.inv[i].gen : i \in Outs(n, "signal")} :
           Cardinality(SignalsOf(n, g)) = Cardinality(Outs(n, "signal") \cap Checks(n, g))
      /\ \A c \in BarCalls(n) : calls[c].cbs[Handler(hist.evs[n].topic)].st = "ok"

\* g1 has raised for a bar and the signal of g2 for that bar has reached the sink
C22_Witness ==
  \E n \in 1..Len(hist.evs) :
    /\ Done(n)
    /\ hist.evs[n].gens = <<"g1", "g2">>
    /\ \E i \in Outs(n, "raise") : hist.inv[i].gen = "g1"
    /\ \E i \in SignalsOf(n, "g2") : hist.sig[i].cbs = {Sink1}
    /\ BarCalls(n) # {}

\* the subscriptions of a table, as pairs of key and callback
Pairs(subs) == {<<k, cb>> : k \in DOMAIN subs, cb \in UNION {subs[j] : j \in DOMAIN subs}}
                 \cap UNION {{<<k, cb>> : cb \in subs[k]} : k \in DOMAIN subs}

\* a list of a topic in the adaptor's table, empty when the topic is not in it
ListOf(lists, topic) == IF topic \in DOMAIN lists THEN lists[topic] ELSE <<>>

\* C23: add(detector) on a bound adaptor appends the detector to the list of
\* its topic; it leaves the subscription table as it was when the topic was
\* known and adds exactly one subscription, the topic's handler, when the
\* topic is new; every later bar of the topic published while the adaptor is
\* bound reaches the handler, which calls the detector
C23_LateRegistration ==
  (probe # NoProbe /\ probe.bound) =>
    /\ Len(ListOf(probe.lists1, probe.topic)) = Len(ListOf(probe.lists, probe.topic)) + 1
    /\ ListOf(probe.lists1, probe.topic)[Len(ListOf(probe.lists1, probe.topic))].name = probe.gen
    /\ \A t \in DOMAIN probe.lists : t # probe.topic => probe.lists1[t] = probe.lists[t]
    /\ probe.topic \in DOMAIN probe.lists => probe.subs1 = probe.subs
    /\ probe.topic \notin DOMAIN probe.lists =>
         /\ Pairs(probe.subs1) = Pairs(probe.subs) \cup {<<probe.topic, Handler(probe.topic)>>}
         /\ <<probe.topic, Handler(probe.topic)>> \notin Pairs(probe.subs)
    /\ \A n \in 1..Len(hist.evs) :
         (n > probe.at /\ hist.evs[n].topic = probe.topic /\ hist.evs[n].bound) =>
           /\ hist.evs[n].got
           /\ Done(n) => Checks(n, probe.gen) # {}

\* g3, of a topic that was new, was added to the bound adaptor and has been
\* called for the bar published next
C23_Witness ==
  /\ probe # NoProbe
  /\ probe.bound
  /\ probe.gen = "g3"
  /\ probe.topic \notin DOMAIN probe.lists
  /\ \E n \in 1..Len(hist.evs) :
       n > probe.at /\ hist.evs[n].topic = probe.topic /\ Done(n) /\ Checks(n, "g3") # {}

\* the subscriptions on the bus that are not handlers of the adaptor
Others == {p \in Pairs(bus.subs) : ~IsHandler(p[2])}

\* C24: once unbind has returned the bus holds no subscription of the adaptor,
\* whether bind or add created it, so a bar published then reaches no handler
\* and no detector is called for it; the subscriptions of other components
\* are what they were
C24_Unbind ==
  /\ ~adaptor.bound => HandlerKeys = {}
  /\ \A n \in 1..Len(hist.evs) :
       ~hist.evs[n].bound =>
         /\ ~hist.evs[n].got
         /\ \A i \in 1..Len(hist.inv) : hist.inv[i].ev # n
  /\ Others = {<<OhlcvA, Sink2>>}

\* the adaptor got a bar of B through the handler that add subscribed, was
\* unbound, and the next bar of B has been published and has returned
C24_Witness ==
  /\ ~adaptor.bound
  /\ Len(hist.evs) = 2
  /\ hist.evs[1].topic = OhlcvB /\ hist.evs[1].bound /\ Done(1) /\ Checks(1, "g3") # {}
  /\ hist.evs[2].topic = OhlcvB /\ ~hist.evs[2].bound /\ hist.evs[2].gens # <<>>
  /\ probe # NoProbe /\ probe.bound /\ probe.gen = "g3" /\ probe.at = 0
  /\ calls = <<>>

(***************************************************************************)
(* TrendSignalGen (signals.py).  A series is the sequence of its bars; a   *)
(* bar carries its close time and the columns that check reads after the   *)
(* indicator library has filled them: the two moving averages and the      *)
(* ratio of the fast true range to the slow one.                           *)
(***************************************************************************)
\* the windows of the detectors, and confirm_bars
EmaShortWindow == 1

EmaLongWindow == 2

AtrWindow == 2

TrFastWindow == 1

ConfirmBars == 2

\* ratio_th, and hysteresis_th in thousandths
RatioTh == 1

HysteresisThPerMille == 2

Max(S) == CHOOSE x \in S : \A y \in S : y <= x

Abs(x) == IF x < 0 THEN 0 - x ELSE x

\* lines 148-154
trend_need == Max({EmaShortWindow, EmaLongWindow, AtrWindow, TrFastWindow}) + ConfirmBars + 2

\* lines 204-205, for the bar at index i of the series
crossed_up(df, i) ==
  df[i - 1].ema_short < df[i - 1].ema_long /\ df[i].ema_short > df[i].ema_long

crossed_dn(df, i) ==
  df[i - 1].ema_short > df[i - 1].ema_long /\ df[i].ema_short < df[i].ema_long

\* lines 218-219: abs((ema_short - ema_long) / ema_long) >= hysteresis_th
hysteresis_ok(bar) ==
  Abs(bar.ema_short - bar.ema_long) * 1000 >= HysteresisThPerMille * Abs(bar.ema_long)

\* the signal of lines 224-232
trend_signal(bar, cross) ==
  [direction |-> IF cross = "UP" THEN "UP" ELSE "DOWN",
   strength |-> bar.ratio - RatioTh, at |-> bar.close_time]

\* the flag that a crossing at bar i leaves as it was
vola_kept(df, i, vola_ok) == vola_ok

\* lines 206-211: vola_ok after the crossing test of bar i
vola_reset(df, i, vola_ok) ==
  IF crossed_up(df, i) \/ crossed_dn(df, i) THEN FALSE ELSE vola_ok

\* lines 213-215: vola_ok after the ratio test of the bar
vola_test(bar, vola_ok) == IF bar.ratio > RatioTh THEN TRUE ELSE vola_ok

\* the scan that stops at the first bar at which a crossing is active and the
\* hysteresis holds, whether the volatility was seen or not
RECURSIVE scan_without_volatility(_, _, _, _)
scan_without_volatility(df, i, cross, vola_ok) ==
  IF i > Len(df) THEN None
  ELSE LET cross1 == IF crossed_up(df, i) THEN "UP"
                     ELSE IF crossed_dn(df, i) THEN "DOWN" ELSE cross
       IN IF cross1 # "" /\ hysteresis_ok(df[i])
          THEN IF i = Len(df) THEN Some(trend_signal(df[i], cross1)) ELSE None
          ELSE scan_without_volatility(df, i + 1, cross1, TRUE)

\* the scan without the break of line 234: it goes on to the newest bar
RECURSIVE scan_without_break(_, _, _, _)
scan_without_break(df, i, cross, vola_ok) ==
  IF i > Len(df) THEN None
  ELSE LET crossing == crossed_up(df, i) \/ crossed_dn(df, i)
           cross1 == IF crossed_up(df, i) THEN "UP"
                     ELSE IF crossed_dn(df, i) THEN "DOWN" ELSE cross
           vola1 == (df[i].ratio > RatioTh) \/ (vola_ok /\ ~crossing)
       IN IF cross1 # "" /\ vola1 /\ hysteresis_ok(df[i]) /\ i = Len(df)
          THEN Some(trend_signal(df[i], cross1))
          ELSE scan_without_break(df, i + 1, cross1, vola1)

\* the loop of lines 200-234 from the bar at index i on; cross is "" for None
RECURSIVE scan(_, _, _, _)
scan(df, i, cross, vola_ok) ==
  IF i > Len(df) THEN None
  ELSE LET crossing == crossed_up(df, i) \/ crossed_dn(df, i)
           cross1 == IF crossed_up(df, i) THEN "UP"
                     ELSE IF crossed_dn(df, i) THEN "DOWN" ELSE cross
           vola1 == vola_test(df[i], vola_reset(df, i, vola_ok))
       IN IF cross1 # "" /\ vola1 /\ hysteresis_ok(df[i])
          THEN IF i = Len(df) THEN Some(trend_signal(df[i], cross1)) ELSE None
          ELSE scan(df, i + 1, cross1, vola1)

\* the values vola_ok takes in the loop of lines 200-234, one entry for each
\* bar the loop visits: on entry, after the crossing test, after the ratio test
RECURSIVE scan_flags(_, _, _, _)
scan_flags(df, i, cross, vola_ok) ==
  IF i > Len(df) THEN <<>>
  ELSE LET cross1 == IF crossed_up(df, i) THEN "UP"
                     ELSE IF crossed_dn(df, i) THEN "DOWN" ELSE cross
           mid == vola_reset(df, i, vola_ok)
           vola1 == vola_test(df[i], mid)
           entry == [i |-> i, cross |-> cross1, entry |-> vola_ok, reset |-> mid, vola_ok |-> vola1]
       IN IF cross1 # "" /\ vola1 /\ hysteresis_ok(df[i])
          THEN <<entry>>
          ELSE <<entry>> \o scan_flags(df, i + 1, cross1, vola1)

\* the flags of the call check(df): line 198 sets vola_ok to False
trend_flags(df) ==
  IF Len(df) < trend_need THEN <<>>
  ELSE scan_flags(df, Len(df) - ConfirmBars, "", FALSE)

\* TrendSignalGen.check(df): the signal, or None
trend_check(df) ==
  IF Len(df) < trend_need THEN None
  ELSE scan(df, Len(df) - ConfirmBars, "", FALSE)

(***************************************************************************)
(* The trend detector polled: the series grows by one closed bar and check *)
(* is called on it.  probe holds the series, the result of the call made   *)
(* last with the values its flag took, and the signals of all calls.  The  *)
(* long average stays at 1000.                                             *)
(***************************************************************************)
MaxPolls == 5

TrendBars ==
  {[ema_short |-> s, ema_long |-> 1000, ratio |-> r] : s \in {998, 999, 1000, 1001, 1002}, r \in {1, 2}}

Bar(b, t) ==
  [close_time |-> t, ema_short |-> b.ema_short, ema_long |-> b.ema_long, ratio |-> b.ratio]

InitTrend ==
  /\ bus = EmptyBus
  /\ calls = <<>>
  /\ adaptor = SignalAdaptor(<<>>)
  /\ hist = NoHist
  /\ feed = NoFeed
  /\ clock = 0
  /\ probe = [df |-> [t \in 1..(trend_need - 2) |->
                        Bar([ema_short |-> 998, ema_long |-> 1000, ratio |-> 1], t)],
              polls |-> 0, out |-> None, signals |-> <<>>, flags |-> <<>>]

TrendPoll ==
  \E b \in TrendBars :
    LET df == Append(probe.df, Bar(b, Len(probe.df) + 1))
        out == trend_check(df)
    IN /\ probe.polls < MaxPolls
       /\ probe' = [df |-> df, polls |-> probe.polls + 1, out |-> out,
                    signals |-> probe.signals \o out, flags |-> trend_flags(df)]
       /\ UNCHANGED <<bus, calls, adaptor, hist, feed, clock>>

NextTrend == TrendPoll

SpecTrend == InitTrend /\ [][NextTrend]_vars

\* the bars a call on df scans, as indices of df
Window(df) == (Len(df) - ConfirmBars)..Len(df)

\* the crossing at bar i, "" when the averages do not change their order
\* between the bar before and the bar
CrossingAt(df, i) ==
  IF df[i - 1].ema_short < df[i - 1].ema_long /\ df[i].ema_short > df[i].ema_long THEN "UP"
  ELSE IF df[i - 1].ema_short > df[i - 1].ema_long /\ df[i].ema_short < df[i].ema_long THEN "DOWN"
  ELSE ""

\* the bars of the window, up to bar i, at which the averages cross
CrossingsTo(df, i) == {j \in Window(df) : j <= i /\ CrossingAt(df, j) # ""}

\* the most recent of them
LastCrossing(df, i) == Max(CrossingsTo(df, i))

\* a crossing is active at bar i and the ratio has exceeded the threshold at
\* a bar from that crossing to i
Confirmed(df, i) ==
  /\ CrossingsTo(df, i) # {}
  /\ \E j \in LastCrossing(df, i)..i : df[j].ratio > RatioTh

Aligned(df, i) ==
  /\ Confirmed(df, i)
  /\ Abs(df[i].ema_short - df[i].ema_long) * 1000 >= HysteresisThPerMille * df[i].ema_long

\* C25: a call on a series long enough emits a signal iff the newest bar is
\* the first bar of the trailing confirm_bars + 1 bars at which a crossing is
\* active, the volatility is confirmed and the hysteresis holds; the signal
\* has the direction of the most recent crossing of the window; a call
\* returns one signal or none
C25_TrendEmissionRule ==
  (probe # NoProbe /\ Len(probe.df) >= trend_need) =>
    LET df == probe.df
        n == Len(df)
    IN /\ Len(probe.out) <= 1
       /\ probe.out # None <=> (Aligned(df, n) /\ \A i \in Window(df) : i < n => ~Aligned(df, i))
       /\ probe.out # None =>
            probe.out[1].direction = CrossingAt(df, LastCrossing(df, n))

\* the averages crossed upwards two bars before the newest, the ratio went
\* over the threshold at the next bar and the gap reached the hysteresis at
\* the newest: the call has emitted UP
C25_Witness ==
  /\ probe # NoProbe
  /\ Len(probe.df) >= trend_need
  /\ LET df == probe.df
         n == Len(df)
     IN /\ CrossingAt(df, n - 2) = "UP" /\ df[n - 2].ratio <= RatioTh
        /\ df[n - 1].ratio > RatioTh /\ ~Aligned(df, n - 1)
        /\ CrossingAt(df, n - 1) = "" /\ CrossingAt(df, n) = ""
        /\ probe.out # None
        /\ probe.out[1].direction = "UP"

\* the series as it was when the bar closing at t was its newest
SeriesAt(t) == SubSeq(probe.df, 1, t)

\* the crossing that the signal emitted at t confirms: the most recent one
\* of the window of that call
CrossingOf(sig) == LastCrossing(SeriesAt(sig.at), sig.at)

\* C26: over successive calls on a series that advances by one bar per call,
\* the bars keeping their values, no two signals are emitted for the same
\* crossing
C26_NoRepeatedAlert ==
  probe # NoProbe =>
    \A i, j \in 1..Len(probe.signals) :
      i < j => CrossingOf(probe.signals[i]) # CrossingOf(probe.signals[j])

\* a crossing was confirmed by the signal of the call before; at the newest
\* bar it is still the active crossing of the window and the volatility and
\* the hysteresis hold, and the call on it has emitted nothing
C26_Witness ==
  /\ probe # NoProbe
  /\ Len(probe.df) > trend_need
  /\ Len(probe.signals) = 1
  /\ probe.signals[1].at = Len(probe.df) - 1
  /\ CrossingOf(probe.signals[1]) = LastCrossing(probe.df, Len(probe.df))
  /\ Aligned(probe.df, Len(probe.df))
  /\ probe.out = None

(***************************************************************************)
(* EMACrossSignalGen (signals.py).  A bar carries the two moving averages  *)
(* the indicator library has computed, each a number or NaN.               *)
(***************************************************************************)
\* a < b of two floats: False when either is NaN
lt(a_nan, a, b_nan, b) == ~a_nan /\ ~b_nan /\ a < b

\* line 64
ema_need == Max({EmaShortWindow, EmaLongWindow}) + 2

\* the crossing upwards when an average that touches the other counts as below it
ema_crossed_up_touching(prev, last) ==
  /\ ~lt(prev.long_nan, prev.ema_long, prev.short_nan, prev.ema_short)
  /\ lt(last.long_nan, last.ema_long, last.short_nan, last.ema_short)

\* line 91
ema_crossed_up(prev, last) ==
  /\ lt(prev.short_nan, prev.ema_short, prev.long_nan, prev.ema_long)
  /\ lt(last.long_nan, last.ema_long, last.short_nan, last.ema_short)

\* line 92
ema_crossed_dn(prev, last) ==
  /\ lt(prev.long_nan, prev.ema_long, prev.short_nan, prev.ema_short)
  /\ lt(last.short_nan, last.ema_short, last.long_nan, last.ema_long)

\* EMACrossSignalGen.check(df): the signal, or None
ema_check(df) ==
  IF Len(df) < ema_need THEN None
  ELSE LET last == df[Len(df)]
           prev == df[Len(df) - 1]
       IN IF last.long_nan \/ prev.long_nan THEN None
          ELSE IF ~(ema_crossed_up(prev, last) \/ ema_crossed_dn(prev, last)) THEN None
          ELSE Some([direction |-> IF ema_crossed_up(prev, last) THEN "UP" ELSE "DOWN",
                     at |-> last.close_time])

(***************************************************************************)
(* The cross detector on its own: series of every length up to one more    *)
(* than it needs, with every pair of last bars over a few values.          *)
(***************************************************************************)
CrossBars ==
  [close_time : {0}, ema_short : {1, 2, 3}, ema_long : {2, 3},
   short_nan : BOOLEAN, long_nan : BOOLEAN]

\* a series of n bars that ends with the bars given
Series(n, tail) ==
  [t \in 1..n |->
     LET b == IF t > n - Len(tail) THEN tail[t - (n - Len(tail))]
              ELSE [close_time |-> 0, ema_short |-> 1, ema_long |-> 2,
                    short_nan |-> FALSE, long_nan |-> FALSE]
     IN [b EXCEPT !.close_time = t]]

InitCross ==
  /\ bus = EmptyBus
  /\ calls = <<>>
  /\ adaptor = SignalAdaptor(<<>>)
  /\ hist = NoHist
  /\ feed = NoFeed
  /\ clock = 0
  /\ \E n \in 0..(ema_need + 1) : \E tail \in [1..(IF n < 2 THEN n ELSE 2) -> CrossBars] :
       probe = [df |-> Series(n, tail), done |-> FALSE, out |-> None]

CrossCheck ==
  /\ probe # NoProbe
  /\ ~probe.done
  /\ probe' = [probe EXCEPT !.done = TRUE, !.out = ema_check(probe.df)]
  /\ UNCHANGED <<bus, calls, adaptor, hist, feed, clock>>

NextCross == CrossCheck

SpecCross == InitCross /\ [][NextCross]_vars

\* the short average is a number below the long one at the bar
Below(bar) == ~bar.short_nan /\ ~bar.long_nan /\ bar.ema_short < bar.ema_long

Above(bar) == ~bar.short_nan /\ ~bar.long_nan /\ bar.ema_short > bar.ema_long

\* C27: on a series of max(short window, long window) + 2 bars or more, check
\* returns UP iff the short average is below the long one at the bar before
\* the last and above it at the last, DOWN iff it is above and then below, and
\* nothing otherwise, equality at either bar included; on a shorter series it
\* returns nothing
C27_EmaCross ==
  (probe # NoProbe /\ probe.done) =>
    LET df == probe.df
        n == Len(df)
        dir == IF probe.out = None THEN "" ELSE probe.out[1].direction
    IN IF n < Max({EmaShortWindow, EmaLongWindow}) + 2 THEN probe.out = None
       ELSE /\ dir = "UP" <=> (Below(df[n - 1]) /\ Above(df[n]))
            /\ dir = "DOWN" <=> (Above(df[n - 1]) /\ Below(df[n]))
            /\ dir \in {"", "UP", "DOWN"}

\* the averages were equal at the bar before the last and the short one is
\* above at the last: the call has returned nothing
C27_Witness ==
  /\ probe # NoProbe
  /\ probe.done
  /\ Len(probe.df) = ema_need
  /\ LET prev == probe.df[Len(probe.df) - 1]
         last == probe.df[Len(probe.df)]
     IN /\ ~prev.short_nan /\ ~prev.long_nan /\ prev.ema_short = prev.ema_long
        /\ Above(last)
  /\ probe.out = None

(***************************************************************************)
(* Two pairs polled at once: the loops of A and B, a subscriber of the     *)
(* bars of A that may never complete and a subscriber of the bars of B.    *)
(* The data source answers every call.                                     *)
(***************************************************************************)
PairA == <<SymA, Iv1s>>

PairB == <<SymB, Iv1s>>

InitPairs ==
  /\ bus = subscribe(subscribe(EmptyBus, OhlcvA, Sink1), OhlcvB, Sink2)
  /\ calls = <<>>
  /\ adaptor = SignalAdaptor(<<>>)
  /\ hist = NoHist
  /\ feed = start(start(NoFeed, PairA), PairB)
  /\ clock = 0
  /\ probe = NoProbe

\* the first step of the task of a pair (lines 89-97)
pair_start(key) ==
  LET tid == feed.tasks[key]
      l == feed.loops[tid]
  IN /\ l.pc = "new"
     /\ feed' = [feed EXCEPT !.loops[tid] =
                   loop_top([l EXCEPT !.sec = interval_seconds(key[2])[1]], feed.stopping, "ok", clock)]
     /\ UNCHANGED <<bus, calls, adaptor, hist, clock, probe>>

\* the timeout of wait_for expires (lines 97-104)
pair_wake(key) ==
  LET tid == feed.tasks[key]
      l == feed.loops[tid]
  IN /\ l.pc = "sleep"
     /\ clock >= l.wake
     /\ l.cycles < MaxCycles
     /\ feed' = [feed EXCEPT !.loops[tid] = fetch_begin(l)]
     /\ UNCHANGED <<bus, calls, adaptor, hist, clock, probe>>

\* a fetch that waits until the task of the first key of the table has gone on
pair_fetch_in_turn(key) ==
  LET tid == feed.tasks[key]
      l == feed.loops[tid]
      W == publish(World, <<"feed", tid>>, Topics_ohlcv(key[1], key[2]),
                   fetch_ohlcv(clock, l.sec), last_close(fetch_ohlcv(clock, l.sec)), TRUE)
  IN /\ l.pc = "fetch"
     /\ \A t \in 1..(tid - 1) : feed.loops[t].pc # "publish"
     /\ bus' = W.bus
     /\ calls' = W.calls
     /\ feed' = [feed EXCEPT !.loops[tid] = [l EXCEPT !.pubs = @ + 1, !.pc = "publish", !.call = W.id]]
     /\ UNCHANGED <<adaptor, hist, clock, probe>>

\* fetch_ohlcv returns the bars and the loop publishes them (lines 114-126)
pair_fetch(key) ==
  LET tid == feed.tasks[key]
      l == feed.loops[tid]
      W == publish(World, <<"feed", tid>>, Topics_ohlcv(key[1], key[2]),
                   fetch_ohlcv(clock, l.sec), last_close(fetch_ohlcv(clock, l.sec)), TRUE)
  IN /\ l.pc = "fetch"
     /\ bus' = W.bus
     /\ calls' = W.calls
     /\ feed' = [feed EXCEPT !.loops[tid] = [l EXCEPT !.pubs = @ + 1, !.pc = "publish", !.call = W.id]]
     /\ UNCHANGED <<adaptor, hist, clock, probe>>

\* publish returns to the loop, which goes to its top
pair_return(key) ==
  LET tid == feed.tasks[key]
      l == feed.loops[tid]
      W == publish_finish(World, l.call)
  IN /\ l.pc = "publish"
     /\ calls[l.call].state = "waiting"
     /\ gather(calls[l.call]) # "pending"
     /\ bus' = W.bus
     /\ calls' = Drop(W.calls, l.call)
     /\ feed' = [feed EXCEPT !.loops[tid] = loop_top([l EXCEPT !.call = 0], feed.stopping, "ok", clock)]
     /\ UNCHANGED <<adaptor, hist, clock, probe>>

\* a subscriber returns
sink_finish(cb) ==
  \E c \in DOMAIN calls :
    /\ calls[c].state = "waiting"
    /\ cb \in DOMAIN calls[c].cbs
    /\ calls[c].cbs[cb].st = "running"
    /\ calls' = [calls EXCEPT ![c].cbs[cb].st = "ok"]
    /\ UNCHANGED <<bus, adaptor, hist, feed, clock, probe>>

PairStart == \E key \in {PairA, PairB} : pair_start(key)

PairWake == \E key \in {PairA, PairB} : pair_wake(key)

PairFetch == \E key \in {PairA, PairB} : pair_fetch(key)

PairReturn == \E key \in {PairA, PairB} : pair_return(key)

SlowSinkFinish == sink_finish(Sink1)

QuickSinkFinish == sink_finish(Sink2)

NextPairs ==
  \/ Tick
  \/ PairStart
  \/ PairWake
  \/ PairFetch
  \/ PairReturn
  \/ SlowSinkFinish
  \/ QuickSinkFinish

\* the clock goes on and the event loop runs the task of B, and the subscriber
\* of B, whenever they are ready; nothing is required of the task of A and of
\* its subscriber
SpecPairs ==
  /\ InitPairs
  /\ [][NextPairs]_vars
  /\ WF_vars(Tick)
  /\ WF_vars(QuickSinkFinish)
  /\ WF_vars(pair_start(PairB))
  /\ WF_vars(pair_wake(PairB))
  /\ WF_vars(pair_fetch(PairB))
  /\ WF_vars(pair_return(PairB))

LoopOf(key) == feed.loops[feed.tasks[key]]

\* the last time the clock of the model shows
LastTick == (MaxClock \div TickMs) * TickMs

\* C28: whether or not the subscriber of the bars of A ever completes, the
\* loop of B, asleep until a fire time that the clock reaches, fetches and
\* publishes; and in some behaviours the subscriber never completes
C28_CrossPairIndependence ==
  \A k \in 0..(MaxCycles - 1) :
    (LoopOf(PairB).pc = "sleep" /\ LoopOf(PairB).cycles = k /\ LoopOf(PairB).wake <= LastTick)
      ~> (LoopOf(PairB).pubs >= k + 1)

\* the loop of A is in its first publish, whose subscriber has not completed,
\* and the loop of B has published for the second time
C28_Witness ==
  /\ LoopOf(PairA).pc = "publish"
  /\ LoopOf(PairA).pubs = 1
  /\ calls[LoopOf(PairA).call].cbs[Sink1].st = "running"
  /\ LoopOf(PairB).pubs = 2

(***************************************************************************)
(* The subscription table: subscribe, unsubscribe and publish calls on a   *)
(* bus.  probe holds the unsubscribe call made last: its arguments and the *)
(* bus before and after it.                                                *)
(***************************************************************************)
TableUnsubscribe ==
  \E s \in BusSubs :
    /\ bus' = unsubscribe(bus, s[1], s[2])
    /\ probe' = [key |-> s[1], cb |-> s[2], before |-> bus, after |-> bus']
    /\ UNCHANGED <<calls, adaptor, hist, feed, clock>>

TablePublish ==
  \E caller \in ExtCallers :
    /\ ~Busy(caller)
    /\ LET W == publish(World, caller, SignalA, "x", Some(1), FALSE)
       IN bus' = W.bus /\ calls' = W.calls /\ hist' = HistBegin(hist, W)
          /\ UNCHANGED <<adaptor, feed, clock, probe>>

NextTable ==
  \/ Subscribe
  \/ TableUnsubscribe
  \/ TablePublish
  \/ CallbackFinish
  \/ PublishReturn
  \/ CallerResumes

SpecTable == Init /\ [][NextTable]_vars

\* C29: no key of the subscription table maps to an empty set; unsubscribe(key,
\* cb) removes cb from the key, removes the key when nothing is left under it,
\* drops the compiled pattern cached for the key, and leaves every other key,
\* callback and cached pattern as it was
C29_TableHygiene ==
  /\ \A k \in DOMAIN bus.subs : bus.subs[k] # {}
  /\ probe # NoProbe =>
       LET b0 == probe.before
           b1 == probe.after
       IN /\ Pairs(b1.subs) = Pairs(b0.subs) \ {<<probe.key, probe.cb>>}
          /\ DOMAIN b1.subs = {p[1] : p \in Pairs(b1.subs)}
          /\ probe.key \notin DOMAIN b1.glob_cache
          /\ \A k \in DOMAIN b0.glob_cache \ {probe.key} :
               k \in DOMAIN b1.glob_cache /\ b1.glob_cache[k] = b0.glob_cache[k]
          /\ DOMAIN b1.glob_cache \subseteq DOMAIN b0.glob_cache
          /\ b1.seen = b0.seen /\ b1.seen_order = b0.seen_order /\ b1.next_id = b0.next_id

\* one of the two subscribers of 'signal:*' was removed after a publish had
\* compiled the pattern: the other is still there and the pattern is not cached
C29_Witness ==
  /\ probe # NoProbe
  /\ probe.key = SignalStar
  /\ probe.cb = Sink1
  /\ SignalStar \in DOMAIN probe.before.subs
  /\ probe.before.subs[SignalStar] = {Sink1, Sink2}
  /\ SignalStar \in DOMAIN probe.before.glob_cache
  /\ probe.after.subs[SignalStar] = {Sink2}
  /\ SignalStar \notin DOMAIN probe.after.glob_cache

\* C30: in every state the lookup set holds exactly the pairs of the FIFO and
\* no more pairs are remembered than the window allows, the oldest pair being
\* the one forgotten when a new pair exceeds the window
C30_DedupeWindowInvariant ==
  /\ bus.seen = {bus.seen_order[i] : i \in 1..Len(bus.seen_order)}
  /\ Cardinality(bus.seen) <= bus.maxlen
  /\ Len(bus.seen_order) <= bus.maxlen

\* C31: within one scan the volatility flag is false at the start; at every
\* bar visited it is false after the crossing test if the averages cross at
\* the bar and as it was otherwise, and true after the ratio test if the
\* ratio of the bar exceeds the threshold and as after the crossing test
\* otherwise; so it is true after a bar iff the ratio exceeded the threshold
\* at a bar of the scan from the most recent crossing on
C31_VolatilityFlag ==
  (probe # NoProbe /\ Len(probe.df) >= trend_need) =>
    LET df == probe.df
        f == probe.flags
    IN /\ Len(f) >= 1
       /\ f[1].i = Len(df) - ConfirmBars
       /\ f[1].entry = FALSE
       /\ \A k \in 1..Len(f) :
            LET i == f[k].i
                from == IF CrossingsTo(df, i) = {} THEN Len(df) - ConfirmBars
                        ELSE LastCrossing(df, i)
            IN /\ k > 1 => (i = f[k - 1].i + 1 /\ f[k].entry = f[k - 1].vola_ok)
               /\ f[k].reset = (f[k].entry /\ CrossingAt(df, i) = "")
               /\ f[k].vola_ok = (f[k].reset \/ df[i].ratio > RatioTh)
               /\ f[k].vola_ok = (\E j \in from..i : df[j].ratio > RatioTh)

\* the ratio exceeded the threshold at the first bar of the scan, the
\* averages crossed at the second with the ratio at the threshold: the flag
\* was true, was reset, and the newest bar with the gap reached has emitted
\* nothing
C31_Witness ==
  /\ probe # NoProbe
  /\ Len(probe.df) >= trend_need
  /\ Len(probe.flags) >= 3
  /\ probe.flags[1].vola_ok
  /\ probe.flags[2].entry /\ ~probe.flags[2].reset /\ ~probe.flags[2].vola_ok
  /\ probe.flags[2].cross = "UP"
  /\ ~probe.flags[3].vola_ok
  /\ hysteresis_ok(probe.df[probe.flags[3].i])
  /\ probe.flags[3].i = Len(probe.df)
  /\ probe.out = None

\* C39: whenever the trend detector emits, the short average is above the
\* long one at the newest bar if the direction is UP and below it if DOWN
C39_DirectionConsistency ==
  (probe # NoProbe /\ Len(probe.df) >= trend_need /\ probe.out # None) =>
    LET bar == probe.df[Len(probe.df)]
    IN /\ probe.out[1].direction = "UP" => bar.ema_short > bar.ema_long
       /\ probe.out[1].direction = "DOWN" => bar.ema_short < bar.ema_long

(***************************************************************************)
(* Overlapping publishes: two outside callers publish one pair on the      *)
(* topic of one subscriber, with or without dedupe.                        *)
(***************************************************************************)
OverlapPublish ==
  \E caller \in IdCallers, dedupe \in BOOLEAN :
    /\ ~Busy(caller)
    /\ LET W == publish(World, caller, SignalA, "x", Some(1), dedupe)
       IN bus' = W.bus /\ calls' = W.calls /\ hist' = HistBegin(hist, W)
    /\ UNCHANGED <<adaptor, feed, clock, probe>>

NextOverlap ==
  \/ OverlapPublish
  \/ CallbackFinish
  \/ PublishReturn
  \/ CallerResumes

SpecOverlap == InitIds /\ [][NextOverlap]_vars

\* C32: of the dedupe publishes of one (topic, msg_id) pair that run at the
\* same time, at most one invokes a given subscriber
C32_ConcurrentDuplicateSuppression ==
  \A c, d \in DOMAIN calls :
    (/\ c # d
     /\ calls[c].dedupe /\ calls[d].dedupe
     /\ calls[c].topic = calls[d].topic /\ calls[c].msg_id = calls[d].msg_id
     /\ calls[c].state = "waiting")
      => DOMAIN calls[c].cbs \cap DOMAIN calls[d].cbs = {}

\* the frames of the publish calls that begin in a step
Begun == {calls'[c] : c \in DOMAIN calls' \ DOMAIN calls}

\* the frames of the publish calls that leave gather in a step
Resumed ==
  {calls'[c] : c \in {d \in DOMAIN calls \cap DOMAIN calls' :
                        calls[d].state = "waiting" /\ calls'[d].state # "waiting"}}

SameWindow == bus'.seen = bus.seen /\ bus'.seen_order = bus.seen_order

\* C37: a publish with dedupe=False is not suppressed, whatever the window
\* holds: it gathers every callback subscribed for its topic; and neither its
\* start nor its return changes the lookup set or the FIFO
C37_NonDedupeFrame ==
  [][/\ \A f \in Begun :
          ~f.dedupe => (/\ ~f.suppressed
                        /\ DOMAIN f.cbs = Subscribed(bus, f.topic)
                        /\ SameWindow)
     /\ \A f \in Resumed : ~f.dedupe => SameWindow]_vars

\* a publish without dedupe of a pair that is in the window is at its
\* subscriber, and the window holds that pair alone
C37_Witness ==
  \E c \in DOMAIN calls :
    /\ ~calls[c].dedupe
    /\ calls[c].state = "waiting"
    /\ <<calls[c].topic, calls[c].msg_id>> \in bus.seen
    /\ bus.seen_order = <<<<calls[c].topic, calls[c].msg_id>>>>
    /\ calls[c].cbs # <<>>

(***************************************************************************)
(* Late subscribers: a bus that starts with no subscriber, callbacks that  *)
(* subscribe, and an outside caller that publishes.  probe holds the pairs *)
(* that a dedupe publish recorded when no callback matched its topic.      *)
(***************************************************************************)
InitLate ==
  /\ bus = EmptyBus
  /\ calls = <<>>
  /\ adaptor = SignalAdaptor(<<>>)
  /\ hist = NoHist
  /\ feed = NoFeed
  /\ clock = 0
  /\ probe = {}

LatePublish ==
  \E caller \in ExtCallers, msg_id \in {Some(1), Some(2)}, dedupe \in BOOLEAN :
    /\ ~Busy(caller)
    /\ LET W == publish(World, caller, SignalA, "x", msg_id, dedupe)
           f == W.calls[W.id]
       IN /\ bus' = W.bus /\ calls' = W.calls /\ hist' = HistBegin(hist, W)
          /\ probe' = IF f.dedupe /\ ~f.suppressed /\ DOMAIN f.cbs = {}
                      THEN probe \cup {<<f.topic, f.msg_id>>} ELSE probe
    /\ UNCHANGED <<adaptor, feed, clock>>

NextLate ==
  \/ Subscribe
  \/ LatePublish
  \/ CallbackFinish
  \/ PublishReturn
  \/ CallerResumes

SpecLate == InitLate /\ [][NextLate]_vars

InFifo(b, p) == \E i \in 1..Len(b.seen_order) : b.seen_order[i] = p

\* C38: a dedupe publish that is not suppressed and matches no subscriber
\* records its pair: the pair is in the lookup set and the newest of the FIFO
\* when the call returns; and a dedupe publish of a pair recorded that way,
\* begun while the pair is in the window, invokes no callback, whatever has
\* subscribed since
C38_DedupeWithoutSubscribers ==
  [][\A f \in Begun :
       f.dedupe =>
         LET p == <<f.topic, f.msg_id>>
         IN /\ (~f.suppressed /\ DOMAIN f.cbs = {}) =>
                 (/\ f.state = "returned"
                  /\ p \in bus'.seen
                  /\ bus'.seen_order # <<>>
                  /\ bus'.seen_order[Len(bus'.seen_order)] = p)
            /\ (p \in probe /\ (p \in bus.seen \/ InFifo(bus, p))) => DOMAIN f.cbs = {}]_vars

\* a pair was recorded by a publish that matched no subscriber, a callback
\* has subscribed for the topic since, and a dedupe publish of the pair has
\* returned without invoking it
C38_Witness ==
  \E c \in DOMAIN calls \cap DOMAIN hist.after :
    /\ calls[c].dedupe
    /\ <<calls[c].topic, calls[c].msg_id>> \in probe
    /\ InFifo(bus, <<calls[c].topic, calls[c].msg_id>>)
    /\ hist.after[c].matched # {}
    /\ calls[c].suppressed
    /\ DOMAIN calls[c].cbs = {}
    /\ calls[c].state = "returned"

\* C33: before stop(), every pair of the task table has a loop that has not
\* terminated
C33_ActivePairRegistry ==
  feed.stop = "idle" =>
    \A key \in DOMAIN feed.tasks : feed.loops[feed.tasks[key]].pc \notin Terminal

\* the loops that a start made after stop() was called has created
LateLoops(f) == IF f.stop = "idle" THEN {} ELSE DOMAIN f.loops \ f.stopped

\* C34: the task table is empty when stop() returns, and a loop started
\* after stop() was called never begins a fetch and never publishes
C34_StopIsTerminal ==
  [][/\ (feed.stop # "returned" /\ feed'.stop = "returned") => feed'.tasks = <<>>
     /\ \A tid \in LateLoops(feed') :
          /\ feed'.loops[tid].pc \in {"new", "done", "failed"}
          /\ feed'.loops[tid].cycles = 0
          /\ feed'.loops[tid].pubs = 0
          /\ \A c \in DOMAIN calls' : calls'[c].caller # <<"feed", tid>>]_vars

\* stop() has returned after cancelling a loop that had published; a pair
\* was started afterwards and its loop has ended at the test of the event
C34_Witness ==
  /\ feed.stop = "returned"
  /\ \E tid \in feed.stopped : feed.loops[tid].pubs >= 1
  /\ \E tid \in LateLoops(feed) :
       /\ feed.loops[tid].pc = "done"
       /\ feed.loops[tid].why = Some("stop")
       /\ feed.loops[tid].key \in DOMAIN feed.tasks

\* the call was given an item that is not a 2-element tuple or list
BadItem(items) == \E i \in 1..Len(items) : ~is_pair(items[i])

\* the call was given one argument, a mapping
MappingForm(items) == Len(items) = 1 /\ items[1].kind = "dict"

\* C35 as stated: a start_many call with an item that is not a 2-element
\* tuple or list raises ValueError and leaves the feed as it was
C35_AnyBadItemRejected ==
  (probe # NoProbe /\ BadItem(probe.items)) =>
    (probe.raised /\ probe.after = probe.before)

\* C35: a start_many call that is not given a mapping as its only argument
\* and has an item that is not a 2-element tuple or list raises ValueError,
\* launches no loop, not even for the pairs before that item, and leaves the
\* task table as it was
C35_AtomicRejection ==
  (probe # NoProbe /\ BadItem(probe.items) /\ ~MappingForm(probe.items)) =>
    /\ probe.raised
    /\ probe.after.loops = probe.before.loops
    /\ probe.after.tasks = probe.before.tasks
    /\ probe.after = probe.before

\* a call named a pair that was not in the table and then something that is
\* not a pair: it raised and the pair has no loop
C35_Witness ==
  /\ probe # NoProbe
  /\ Len(probe.items) = 2
  /\ probe.items[1] = Tuple(<<SymB, Iv1s>>)
  /\ probe.items[2] = NotAPair
  /\ <<SymB, Iv1s>> \notin DOMAIN probe.before.tasks
  /\ probe.raised
  /\ <<SymB, Iv1s>> \notin DOMAIN probe.after.tasks
  /\ feed = probe.after

\* C36: a bound adaptor has exactly one handler for each key of its table of
\* detectors, subscribed on the bus under that topic and under no other; an
\* adaptor that is not bound has no handler and none is subscribed
C36_BindingInvariant ==
  /\ adaptor.bound =>
       /\ DOMAIN adaptor.handlers = DOMAIN adaptor.by_topic
       /\ \A t \in DOMAIN adaptor.handlers :
            /\ t \in DOMAIN bus.subs
            /\ adaptor.handlers[t] \in bus.subs[t]
            /\ \A k \in DOMAIN bus.subs : adaptor.handlers[t] \in bus.subs[k] => k = t
       /\ HandlerKeys = DOMAIN adaptor.handlers
  /\ ~adaptor.bound =>
       /\ adaptor.handlers = <<>>
       /\ HandlerKeys = {}

\* the adaptor was bound when a bar was published, was not bound when a
\* detector of a new topic was added after that bar, and is bound again with
\* a handler subscribed for each of its two topics
C36_Witness ==
  /\ probe # NoProbe
  /\ ~probe.bound
  /\ probe.topic = OhlcvB
  /\ OhlcvB \notin DOMAIN probe.lists
  /\ \E n \in 1..Len(hist.evs) : n <= probe.at /\ hist.evs[n].bound
  /\ adaptor.bound
  /\ DOMAIN adaptor.handlers = {OhlcvA, OhlcvB}
  /\ Handler(OhlcvB) \in bus.subs[OhlcvB]
  /\ Handler(OhlcvA) \in bus.subs[OhlcvA]

====
